---- MODULE Spec2Model ----
(***************************************************************************)
(* A model of rmgpy/data/kinetics/family.py: the reaction recipe executor  *)
(* (ReactionRecipe), the reaction generator of a kinetics family           *)
(* (KineticsFamily.__generateReactions) and the rate rule lookup and       *)
(* estimation (getRateRule, estimateKineticsUsingRateRules).               *)
(*                                                                         *)
(* Three specifications share the variables:                               *)
(*   SpecRecipe  a recipe and a labeled graph, getReverse / applyForward / *)
(*               applyReverse;                                             *)
(*   SpecGen     calls of __generateReactions on a small chemistry;        *)
(*   SpecRules   a rule store over a template tree, lookups and estimates. *)
(***************************************************************************)
EXTENDS Integers, Sequences, FiniteSets, TLC

VARIABLES
    struct,     \* the graph the recipe is applied to (labels, bonds, radicals)
    struct0,    \* the graph as it was before the first application
    recipe,     \* ReactionRecipe.actions
    recipe0,    \* the recipe as constructed
    nrev,       \* number of getReverse() calls made on the recipe
    hist,       \* the applications made so far: "F" applyForward, "R" applyReverse
    err,        \* the exception the last application raised, "none" if it returned
    pre,        \* the graph as it was before the last application
    family,     \* the kinetics family: label, template sizes, ownReverse
    sitesA1,    \* what the matcher and the recipe give for molecule A in slot 1
    sitesA2,    \* what the matcher and the recipe give for molecule A in slot 2
    resSites,   \* whether the second resonance isomer of A matches the template
    call,       \* the last call of __generateReactions: its arguments
    candidates, \* its candidate reactions, before the deduplication
    rxnListRaw, \* its reactions after the deduplication, before the halving
    rxnList,    \* the reactions it returned
    genErr,     \* the exception it raised, "none" if it returned
    rules,      \* self.rules.entries.values(), in the order of iteration
    kcall,      \* the last call of getRateRule or of the estimator: its arguments
    entry,      \* the entry getRateRule returned
    kinetics,   \* the kinetics estimateKineticsUsingRateRules returned
    levels,     \* the template lists the estimator went through
    kerr,       \* the exception the call raised, "none" if it returned
    pc,         \* where a call of the estimator run step by step stands
    loopList,   \* the templateList of the estimator's loop
    rules0,     \* the rule store as it was before the last pass of averaging up
    alreadyDone, \* the alreadyDone dictionary of the last pass: <<label, kinetics>> pairs
    computed,   \* the labels the last pass computed, in the order of computing
    depositories, \* the family's depositories in the order of registration
    consulted,  \* the sources the running getKinetics call has consulted
    results,    \* what the last getKinetics call returned
    labeledMols, \* the reactant molecule objects whose atoms carry template labels
    pairReaction, \* the reaction handed to getReactionPairs
    pairs,      \* the pairs getReactionPairs returned
    pairError,  \* the exception getReactionPairs ended with, "none" otherwise
    events,     \* what the last application of the recipe did to struct, in order
    connectivity \* the state of struct's connectivity values: "valid" or "invalid"

rvars == <<struct, struct0, recipe, recipe0, nrev, hist, err, pre, events, connectivity>>
gvars == <<family, sitesA1, sitesA2, resSites, call, candidates, rxnListRaw, rxnList,
          genErr, labeledMols>>

kvars == <<rules, kcall, entry, kinetics, levels, kerr, pc, loopList, rules0,
          alreadyDone, computed, depositories,
               consulted, results>>

pvars == <<pairReaction, pairs, pairError>>

vars == <<rvars, gvars, kvars, pvars>>

(***************************************************************************)
(* Bounds                                                                  *)
(***************************************************************************)
MaxRecipeLen == 2
MaxApplies == 2
\* the most mappings of one molecule onto one template slot
MaxMaps == 2

(***************************************************************************)
(* Program constants                                                       *)
(***************************************************************************)
\* bond orders S, D, T are 1, 2, 3; 0 stands for "no bond"
MaxOrder == 3

(***************************************************************************)
(* The graph.  Atoms are 1..3; an atom carries a label ("" when untagged)  *)
(* and a count of radical electrons; a bond is an order on an unordered    *)
(* pair of atoms.                                                          *)
(***************************************************************************)
Atoms == 1..3
Pairs == {{a, b} : a, b \in Atoms} \ {{a} : a \in Atoms}

NoAtom == 0

\* Graph.getLabeledAtom: the first atom carrying the label, None if none does
getLabeledAtom(g, label) ==
    IF \E a \in Atoms : g.label[a] = label
    THEN CHOOSE a \in Atoms : /\ g.label[a] = label
                              /\ \A b \in Atoms : g.label[b] = label => a <= b
    ELSE NoAtom

\* Graph.hasBond
hasBond(g, a, b) == a # b /\ g.bond[{a, b}] # 0

\* Graph.addBond of a new single bond (an existing bond object is replaced)
addBond(g, a, b) == [g EXCEPT !.bond[{a, b}] = 1]

\* Graph.removeBond
removeBond(g, a, b) == [g EXCEPT !.bond[{a, b}] = 0]

(***************************************************************************)
(* Strings that hold numbers.  int() and str() of Python on the numerals   *)
(* that occur in recipes.                                                  *)
(***************************************************************************)
Numerals == {"-2", "-1", "0", "1", "2", "+1", "+2"}

int(s) ==
    CASE s = "-2" -> -2
      [] s = "-1" -> -1
      [] s = "0"  -> 0
      [] s = "1"  -> 1
      [] s = "2"  -> 2
      [] s = "+1" -> 1
      [] s = "+2" -> 2

str(i) ==
    CASE i = -2 -> "-2"
      [] i = -1 -> "-1"
      [] i = 0  -> "0"
      [] i = 1  -> "1"
      [] i = 2  -> "2"

(***************************************************************************)
(* Recipe actions: [tag, l1, info, l2]; a radical action has l2 = "".      *)
(***************************************************************************)
BondTags == {"CHANGE_BOND", "FORM_BOND", "BREAK_BOND"}
RadicalTags == {"LOSE_RADICAL", "GAIN_RADICAL"}
KnownTags == BondTags \cup RadicalTags

Act(tag, l1, info, l2) == [tag |-> tag, l1 |-> l1, info |-> info, l2 |-> l2]

\* ReactionRecipe.getReverse, one action; an action of another tag is dropped
getReverseMutGain(action) ==
    CASE action.tag = "CHANGE_BOND" ->
            <<Act("CHANGE_BOND", action.l1, str(-int(action.info)), action.l2)>>
      [] action.tag = "FORM_BOND" ->
            <<Act("BREAK_BOND", action.l1, action.info, action.l2)>>
      [] action.tag = "BREAK_BOND" ->
            <<Act("FORM_BOND", action.l1, action.info, action.l2)>>
      [] action.tag = "LOSE_RADICAL" ->
            <<Act("GAIN_RADICAL", action.l1, action.info, action.l2)>>
      [] action.tag = "GAIN_RADICAL" ->
            <<Act("GAIN_RADICAL", action.l1, action.info, action.l2)>>
      [] OTHER -> <<>>

getReverseAction(action) ==
    CASE action.tag = "CHANGE_BOND" ->
            <<Act("CHANGE_BOND", action.l1, str(-int(action.info)), action.l2)>>
      [] action.tag = "FORM_BOND" ->
            <<Act("BREAK_BOND", action.l1, action.info, action.l2)>>
      [] action.tag = "BREAK_BOND" ->
            <<Act("FORM_BOND", action.l1, action.info, action.l2)>>
      [] action.tag = "LOSE_RADICAL" ->
            <<Act("GAIN_RADICAL", action.l1, action.info, action.l2)>>
      [] action.tag = "GAIN_RADICAL" ->
            <<Act("LOSE_RADICAL", action.l1, action.info, action.l2)>>
      [] OTHER -> <<>>

RECURSIVE getReverse(_)
getReverse(actions) ==
    IF actions = <<>> THEN <<>>
    ELSE getReverseAction(Head(actions)) \o getReverse(Tail(actions))

(***************************************************************************)
(* Atom.applyAction and Bond.applyAction of a molecule.                    *)
(***************************************************************************)
Ok(g) == [g |-> g, err |-> "none"]
Raise(g, e) == [g |-> g, err |-> e]

\* Bond.applyAction(CHANGE_BOND): the order moves by delta within S..T
bondApplyAction(g, a, b, delta) ==
    LET o == g.bond[{a, b}] + delta
    IN  IF o \in 1..MaxOrder
        THEN Ok([g EXCEPT !.bond[{a, b}] = o])
        ELSE Raise(g, "ActionError")

\* Atom.applyAction(GAIN_RADICAL | LOSE_RADICAL), `change` times one electron;
\* the atom keeps what it lost before a decrement fails
RECURSIVE atomApplyRadical(_, _, _, _)
atomApplyRadical(g, a, gain, change) ==
    IF change <= 0 THEN Ok(g)
    ELSE IF gain
         THEN atomApplyRadical([g EXCEPT !.rad[a] = @ + 1], a, gain, change - 1)
         ELSE IF g.rad[a] = 0
              THEN Raise(g, "ActionError")
              ELSE atomApplyRadical([g EXCEPT !.rad[a] = @ - 1], a, gain, change - 1)

(***************************************************************************)
(* ReactionRecipe.__apply                                                  *)
(***************************************************************************)
\* the body of the loop for a CHANGE_BOND, FORM_BOND or BREAK_BOND action,
\* without the test that the two labels resolve to two atoms
applyBondActionMutSelf(g, action, doForward) ==
    LET atom1 == getLabeledAtom(g, action.l1)
        atom2 == getLabeledAtom(g, action.l2)
    IN  IF atom1 = NoAtom \/ atom2 = NoAtom
        THEN Raise(g, "InvalidActionError")
        ELSE IF action.tag = "CHANGE_BOND"
        THEN IF atom1 = atom2 \/ ~hasBond(g, atom1, atom2)
             THEN Raise(g, "ValueError")
             ELSE bondApplyAction(g, atom1, atom2,
                      IF doForward THEN int(action.info) ELSE -int(action.info))
        ELSE IF (action.tag = "FORM_BOND" /\ doForward)
                \/ (action.tag = "BREAK_BOND" /\ ~doForward)
        THEN IF atom1 = atom2 THEN Ok(g) ELSE Ok(addBond(g, atom1, atom2))
        ELSE IF ~hasBond(g, atom1, atom2)
             THEN Raise(g, "InvalidActionError")
             ELSE Ok(removeBond(g, atom1, atom2))

\* the body of the loop for a CHANGE_BOND, FORM_BOND or BREAK_BOND action
applyBondAction(g, action, doForward) ==
    LET atom1 == getLabeledAtom(g, action.l1)
        atom2 == getLabeledAtom(g, action.l2)
    IN  IF atom1 = NoAtom \/ atom2 = NoAtom \/ atom1 = atom2
        THEN Raise(g, "InvalidActionError")
        ELSE IF action.tag = "CHANGE_BOND"
        THEN IF ~hasBond(g, atom1, atom2)
             THEN Raise(g, "ValueError")
             ELSE bondApplyAction(g, atom1, atom2,
                      IF doForward THEN int(action.info) ELSE -int(action.info))
        ELSE IF (action.tag = "FORM_BOND" /\ doForward)
                \/ (action.tag = "BREAK_BOND" /\ ~doForward)
        THEN Ok(addBond(g, atom1, atom2))
        ELSE IF ~hasBond(g, atom1, atom2)
             THEN Raise(g, "InvalidActionError")
             ELSE Ok(removeBond(g, atom1, atom2))

\* the body of the loop for a LOSE_RADICAL or GAIN_RADICAL action
applyRadicalAction(g, action, doForward) ==
    LET atom == getLabeledAtom(g, action.l1)
    IN  IF atom = NoAtom
        THEN Raise(g, "InvalidActionError")
        ELSE atomApplyRadical(g, atom,
                 (action.tag = "GAIN_RADICAL") = doForward, int(action.info))

applyAction(g, action, doForward) ==
    IF action.tag \in BondTags THEN applyBondAction(g, action, doForward)
    ELSE IF action.tag \in RadicalTags THEN applyRadicalAction(g, action, doForward)
    ELSE Raise(g, "InvalidActionError")

\* the first k actions of the list, applied in list order until one raises
RECURSIVE applyPrefix(_, _, _, _)
applyPrefix(g, actions, doForward, k) ==
    IF k = 0 THEN Ok(g)
    ELSE LET p == applyPrefix(g, actions, doForward, k - 1)
         IN  IF p.err # "none" THEN p
             ELSE applyAction(p.g, actions[k], doForward)

apply(g, actions, doForward) == applyPrefix(g, actions, doForward, Len(actions))

\* One thing an application does: a call on struct, or the body of the loop
\* for the k-th action ("bond", "radical", or "raised" when it raises).
Event(kind, k) == [kind |-> kind, k |-> k]

\* what the first k passes of the loop do, in order: a bond action resets
\* the connectivity values before anything else of its pass
RECURSIVE loopEvents(_, _, _, _)
loopEvents(g, actions, doForward, k) ==
    IF k = 0 THEN <<>>
    ELSE LET p == applyPrefix(g, actions, doForward, k - 1)
         IN  IF p.err # "none" THEN loopEvents(g, actions, doForward, k - 1)
             ELSE loopEvents(g, actions, doForward, k - 1)
                  \o (IF actions[k].tag \in BondTags
                      THEN <<Event("resetConnectivityValues", k)>> ELSE <<>>)
                  \o <<Event(IF applyAction(p.g, actions[k], doForward).err # "none"
                             THEN "raised"
                             ELSE IF actions[k].tag \in BondTags THEN "bond"
                             ELSE "radical", k)>>

\* an application that never updates the connectivity values
applyEventsMutNoUpdate(g, actions, doForward) ==
    loopEvents(g, actions, doForward, Len(actions))

\* __apply: the loop and, when it ends without raising, the update
applyEvents(g, actions, doForward) ==
    loopEvents(g, actions, doForward, Len(actions))
    \o (IF apply(g, actions, doForward).err = "none"
        THEN <<Event("updateConnectivityValues", 0)>> ELSE <<>>)

\* The connectivity values after the calls: resetConnectivityValues leaves
\* them invalid, updateConnectivityValues computes them anew.
RECURSIVE connectivityAfter(_, _)
connectivityAfter(before, evs) ==
    IF evs = <<>> THEN before
    ELSE LET last == evs[Len(evs)]
         IN  IF last.kind = "updateConnectivityValues" THEN "valid"
             ELSE IF last.kind = "resetConnectivityValues" THEN "invalid"
             ELSE connectivityAfter(before, SubSeq(evs, 1, Len(evs) - 1))

(***************************************************************************)
(* The recipes and graphs the recipe specification starts from.            *)
(***************************************************************************)
ActionPool ==
    { Act("CHANGE_BOND", "*1", "1", "*2"),
      Act("CHANGE_BOND", "*1", "-1", "*2"),
      Act("CHANGE_BOND", "*1", "+1", "*2"),
      Act("FORM_BOND", "*1", "S", "*2"),
      Act("FORM_BOND", "*2", "S", "*3"),
      Act("FORM_BOND", "*1", "S", "*1"),
      Act("BREAK_BOND", "*1", "S", "*2"),
      Act("BREAK_BOND", "*1", "D", "*2"),
      Act("BREAK_BOND", "*2", "S", "*3"),
      Act("GAIN_RADICAL", "*1", "1", ""),
      Act("GAIN_RADICAL", "*3", "2", ""),
      Act("LOSE_RADICAL", "*1", "1", ""),
      Act("LOSE_RADICAL", "*2", "2", ""),
      Act("MOVE_ATOM", "*1", "1", "*2") }

RECURSIVE SeqsUpTo(_, _)
SeqsUpTo(S, n) ==
    IF n = 0 THEN {<<>>}
    ELSE LET shorter == SeqsUpTo(S, n - 1)
         IN  shorter \cup {Append(s, x) : s \in shorter, x \in S}

Labelings == { <<"*1", "*2", "">>, <<"*1", "*2", "*3">> }

Graphs ==
    { [label |-> l,
       bond  |-> [p \in Pairs |-> IF p = {1, 2} THEN b12
                                  ELSE IF p = {2, 3} THEN b23 ELSE 0],
       rad   |-> [a \in Atoms |-> IF a = 1 THEN r1 ELSE 0]] :
      l \in Labelings, b12 \in 0..2, b23 \in 0..1, r1 \in {1} }

NoCall == [kind |-> "none"]

\* what stands for "no kinetics" and for "no entry" while none was returned
NoKinetics == [A |-> 0, Aunits |-> "", n |-> 0, E0 |-> 0, comment |-> <<>>]
NoEntry == [index |-> -1, label |-> <<>>, rank |-> -1, data |-> NoKinetics]

\* no call of getReactionPairs was made
PairsIdle ==
    /\ pairReaction = [reactants |-> <<>>, products |-> <<>>]
    /\ pairs = <<>>
    /\ pairError = "none"

RulesIdle ==
    /\ rules = <<>>
    /\ kcall = NoCall
    /\ entry = NoEntry
    /\ kinetics = NoKinetics
    /\ levels = <<>>
    /\ kerr = "none"
    /\ pc = "idle"
    /\ loopList = <<>>
    /\ rules0 = <<>>
    /\ alreadyDone = <<>>
    /\ computed = <<>>
    /\ depositories = <<>>
    /\ consulted = <<>>
    /\ results = <<>>

GenIdle ==
    /\ family = [label |-> "", nReact |-> 0, nProd |-> 0, ownReverse |-> FALSE]
    /\ sitesA1 = <<>>
    /\ sitesA2 = <<>>
    /\ resSites = FALSE
    /\ call = NoCall
    /\ candidates = <<>>
    /\ rxnListRaw = <<>>
    /\ rxnList = <<>>
    /\ genErr = "none"
    /\ labeledMols = {}

InitRecipe ==
    /\ GenIdle
    /\ RulesIdle
    /\ struct \in Graphs
    /\ struct0 = struct
    /\ pre = struct
    /\ recipe \in SeqsUpTo(ActionPool, MaxRecipeLen)
    /\ recipe0 = recipe
    /\ nrev = 0
    /\ hist = <<>>
    /\ err = "none"
    /\ events = <<>>
    /\ connectivity \in {"valid", "invalid"}
    /\ PairsIdle

\* recipe = recipe.getReverse()
GetReverse ==
    /\ hist = <<>>
    /\ nrev < 2
    /\ recipe' = getReverse(recipe)
    /\ nrev' = nrev + 1
    /\ UNCHANGED <<struct, struct0, recipe0, hist, err, pre, events, connectivity>>
    /\ UNCHANGED gvars
    /\ UNCHANGED kvars
    /\ UNCHANGED pvars

\* recipe.applyForward(struct)
applyForward ==
    /\ Len(hist) < MaxApplies
    /\ err = "none"
    /\ LET r == apply(struct, recipe, TRUE)
       IN  /\ struct' = r.g
           /\ err' = r.err
    /\ events' = applyEvents(struct, recipe, TRUE)
    /\ connectivity' = connectivityAfter(connectivity, events')
    /\ pre' = struct
    /\ hist' = Append(hist, "F")
    /\ UNCHANGED <<struct0, recipe, recipe0, nrev>>
    /\ UNCHANGED gvars
    /\ UNCHANGED kvars
    /\ UNCHANGED pvars

\* recipe.applyReverse(struct)
applyReverse ==
    /\ Len(hist) < MaxApplies
    /\ err = "none"
    /\ LET r == apply(struct, recipe, FALSE)
       IN  /\ struct' = r.g
           /\ err' = r.err
    /\ events' = applyEvents(struct, recipe, FALSE)
    /\ connectivity' = connectivityAfter(connectivity, events')
    /\ pre' = struct
    /\ hist' = Append(hist, "R")
    /\ UNCHANGED <<struct0, recipe, recipe0, nrev>>
    /\ UNCHANGED gvars
    /\ UNCHANGED kvars
    /\ UNCHANGED pvars

NextRecipe == GetReverse \/ applyForward \/ applyReverse

SpecRecipe == InitRecipe /\ [][NextRecipe]_vars

(***************************************************************************)
(* Claims about the recipe.                                                *)
(***************************************************************************)
lastForward == hist[Len(hist)] = "F"

\* C1: a recipe applied forward and then in reverse (or in reverse and then
\* forward), the recipe as constructed or its generated reverse, with both
\* applications returning, gives back the graph it started from: same labels,
\* same bonds and orders, same radical counts.
RecipeRoundTrip ==
    (Len(hist) = 2 /\ hist[1] # hist[2] /\ err = "none") => struct = struct0

\* the actions of a recipe all carry one of the five tags, and the order of
\* every CHANGE_BOND is written the way str() writes an integer
Canonical(actions) ==
    \A i \in 1..Len(actions) :
        /\ actions[i].tag \in KnownTags
        /\ actions[i].tag = "CHANGE_BOND" => actions[i].info = str(int(actions[i].info))

\* C2 as stated: getReverse(getReverse(r)) equals r action for action, for
\* any recipe r.
ReverseInvolutionAny == nrev = 2 => recipe = recipe0

\* C2 as amended: getReverse(getReverse(r)) equals r action for action when
\* every action of r carries one of the five tags and every CHANGE_BOND order
\* is a canonical integer string.
ReverseInvolution == (nrev = 2 /\ Canonical(recipe0)) => recipe = recipe0

ReverseInvolutionWitness ==
    /\ nrev = 2
    /\ Canonical(recipe0)
    /\ Len(recipe0) = 2
    /\ recipe0[1].tag = "CHANGE_BOND"
    /\ recipe0[2].tag = "GAIN_RADICAL"
    /\ recipe = recipe0

Carried(g, label) == \E a \in Atoms : g.label[a] = label

\* the atoms carrying the label, whichever of them the lookup returns
Carriers(g, label) == {a \in Atoms : g.label[a] = label}

MissingLabel(g, action) ==
    \/ action.tag \in BondTags /\ (~Carried(g, action.l1) \/ ~Carried(g, action.l2))
    \/ action.tag \in RadicalTags /\ ~Carried(g, action.l1)

SameAtom(g, action) ==
    /\ action.tag \in BondTags
    /\ Carried(g, action.l1)
    /\ action.l1 = action.l2

RemovesNoBond(g, action, doForward) ==
    /\ \/ action.tag = "BREAK_BOND" /\ doForward
       \/ action.tag = "FORM_BOND" /\ ~doForward
    /\ Carried(g, action.l1) /\ Carried(g, action.l2)
    /\ \A a \in Carriers(g, action.l1), b \in Carriers(g, action.l2) :
           a # b /\ g.bond[{a, b}] = 0

\* C3: an application that reaches an action naming a label no atom carries,
\* a bond action whose two labels resolve to one atom, or a bond removal
\* (BREAK_BOND forward, FORM_BOND in reverse) between two atoms that are not
\* bonded, raises InvalidActionError.
InvalidActionRaised ==
    hist # <<>> =>
        \A k \in 1..Len(recipe) :
            LET p == applyPrefix(pre, recipe, lastForward, k - 1)
            IN  (/\ p.err = "none"
                 /\ \/ MissingLabel(p.g, recipe[k])
                    \/ SameAtom(p.g, recipe[k])
                    \/ RemovesNoBond(p.g, recipe[k], lastForward))
                => err = "InvalidActionError"

InvalidActionRaisedWitness ==
    /\ hist = <<"R">>
    /\ err = "InvalidActionError"
    /\ Len(recipe) = 2
    /\ applyPrefix(pre, recipe, FALSE, 1).err = "none"
    /\ recipe[2].tag = "FORM_BOND"
    /\ RemovesNoBond(applyPrefix(pre, recipe, FALSE, 1).g, recipe[2], FALSE)

(***************************************************************************)
(* The reaction generator.                                                 *)
(*                                                                         *)
(* Molecules are known by their isomorphism class, a number:               *)
(*   1, 2   two resonance isomers of the reactant species A                *)
(*   3      the reactant species B                                         *)
(*   4, 5   two resonance isomers of one product species                   *)
(*   6, 7   two further product species                                    *)
(*   8      the second fragment of a dissociation                          *)
(*   10 x + y (x <= y)   the molecule joined from x and y                  *)
(* A mapping of a molecule onto a template slot is known by the fragment   *)
(* the recipe makes of the molecule at the matched site.                   *)
(***************************************************************************)
\* outcomes of __generateProductStructures that are no product
Forbidden == -1         \* ForbiddenStructureException
WrongCount == -2        \* applyRecipe returned None
Invalid == -3           \* InvalidActionError

Min(x, y) == IF x <= y THEN x ELSE y
Max(x, y) == IF x <= y THEN y ELSE x

\* Molecule.isIsomorphic
isIsomorphic(c, d) == c = d

\* the resonance isomers of a molecule that is not joined from two
isomersOfFragment(c) ==
    IF c \in {1, 2} THEN {1, 2}
    ELSE IF c \in {4, 5} THEN {4, 5}
    ELSE {c}

\* Molecule.generateResonanceIsomers: the molecule and its resonance isomers
generateResonanceIsomers(c) ==
    IF c < 10 THEN isomersOfFragment(c)
    ELSE {10 * Min(x, y) + Max(x, y) :
             x \in isomersOfFragment(c \div 10), y \in isomersOfFragment(c % 10)}

\* the molecule a bimolecular recipe joins from two fragments
Join(f1, f2) ==
    IF Max(f1, f2) = 8 /\ Min(f1, f2) \in {4, 5, 6} THEN 1
    ELSE 10 * Min(f1, f2) + Max(f1, f2)

\* the fragment of the resonance isomer's site
Shift(f) == IF f = 4 THEN 5 ELSE IF f = 5 THEN 4 ELSE f

Families ==
    { [label |-> "intra_H_migration", nReact |-> 1, nProd |-> 1, ownReverse |-> TRUE],
      [label |-> "H_Abstraction", nReact |-> 2, nProd |-> 2, ownReverse |-> TRUE],
      [label |-> "R_Recombination", nReact |-> 2, nProd |-> 1, ownReverse |-> FALSE],
      [label |-> "R_Addition_MultipleBond", nReact |-> 2, nProd |-> 1, ownReverse |-> FALSE] }

\* self.label.lower().startswith('r_recombination')
isRecombination(fam) == fam.label = "R_Recombination"

\* the reactant slots of the template of a direction
templateReactants(fam, forward) == IF forward THEN fam.nReact ELSE fam.nProd

\* __matchReactantToTemplate followed by the recipe: the fragments, one per
\* mapping, that molecule c gives in the slot
matchReactantToTemplate(fam, forward, slot, c) ==
    IF c = 1 THEN (IF slot = 1 \/ ~forward THEN sitesA1 ELSE sitesA2)
    ELSE IF c = 2
    THEN IF ~resSites THEN <<>>
         ELSE LET t == IF slot = 1 \/ ~forward THEN sitesA1 ELSE sitesA2
              IN  [i \in 1..Len(t) |-> Shift(t[i])]
    ELSE IF ~forward THEN <<>>
    ELSE IF c = 3 THEN (IF slot = 1 THEN <<6>> ELSE <<7, 7>>)
    ELSE IF c \in {4, 5, 6}
    THEN IF slot = 1 \/ isRecombination(fam) THEN <<c>> ELSE <<>>
    ELSE IF c = 8
    THEN IF slot = 2 \/ isRecombination(fam) THEN <<c>> ELSE <<>>
    ELSE <<>>

\* __generateProductStructures: the product structures, the one with the
\* atom labeled *1 first, or the outcome that is no product
generateProductStructures(fam, forward, frags) ==
    IF \E i \in 1..Len(frags) : frags[i] = Forbidden THEN <<Forbidden>>
    ELSE IF \E i \in 1..Len(frags) : frags[i] = Invalid THEN <<Invalid>>
    ELSE IF \E i \in 1..Len(frags) : frags[i] = WrongCount THEN <<WrongCount>>
    ELSE IF ~forward THEN <<frags[1], 8>>
    ELSE IF Len(frags) = 1 THEN <<frags[1]>>
    ELSE IF fam.nProd = 2 THEN <<frags[1], frags[2]>>
    ELSE <<Join(frags[1], frags[2])>>

\* __createReaction without the comparison of the products with the reactants
createReactionMutKeep(reactants, products, isForward) ==
    <<[reactants |-> IF isForward THEN reactants ELSE products,
       products |-> IF isForward THEN products ELSE reactants,
       degeneracy |-> 1,
       raw |-> 1]>>

\* __createReaction; <<>> when the products are the reactants
createReaction(reactants, products, isForward) ==
    IF \/ /\ Len(reactants) = 1 /\ Len(products) = 1
          /\ isIsomorphic(reactants[1], products[1])
       \/ /\ Len(reactants) = 2 /\ Len(products) = 2
          /\ \/ isIsomorphic(reactants[1], products[1])
                /\ isIsomorphic(reactants[2], products[2])
             \/ isIsomorphic(reactants[1], products[2])
                /\ isIsomorphic(reactants[2], products[1])
    THEN <<>>
    ELSE <<[reactants |-> IF isForward THEN reactants ELSE products,
            products |-> IF isForward THEN products ELSE reactants,
            degeneracy |-> 1,
            raw |-> 1]>>

\* what stands in the candidate list for a raised InvalidActionError
Raised == [reactants |-> <<>>, products |-> <<Invalid>>, degeneracy |-> 0, raw |-> 0]

\* what stands in the candidate list for a ForbiddenStructureException that
\* no handler caught
Escaped == [reactants |-> <<>>, products |-> <<Forbidden>>, degeneracy |-> 0, raw |-> 0]

\* `except ForbiddenStructureException: pass` around the call of
\* __generateProductStructures: the exceptions the loop body swallows
exceptsForbiddenMutNone(outcome) == FALSE
exceptsForbidden(outcome) == outcome = Forbidden

\* the body of the mapping loops: one candidate, <<>> if it is skipped,
\* <<Raised>> if the recipe raised InvalidActionError
candidate(fam, forward, reactants, frags) ==
    LET ps == generateProductStructures(fam, forward, frags)
    IN  IF ps = <<Forbidden>>
        THEN IF exceptsForbidden(Forbidden) THEN <<>> ELSE <<Escaped>>
        ELSE IF ps = <<Invalid>>
        THEN IF exceptsForbidden(Invalid) THEN <<>> ELSE <<Raised>>
        ELSE IF ps = <<WrongCount>> THEN <<>>
        ELSE createReaction(reactants, ps, forward)

\* the value of F for the value of e, e evaluated once
Bind(e, F(_)) == CHOOSE y \in {F(x) : x \in {e}} : TRUE

\* the lists of a list of lists, one after the other
RECURSIVE FlattenFrom(_, _)
FlattenFrom(ss, i) ==
    IF i > Len(ss) THEN <<>> ELSE ss[i] \o FlattenFrom(ss, i + 1)

Flatten(ss) == FlattenFrom(ss, 1)

\* the unimolecular branch: all resonance isomers, all mappings
unimolecular(fam, forward, molecules) ==
    Flatten([m \in 1..Len(molecules) |->
        LET mappings == matchReactantToTemplate(fam, forward, 1, molecules[m].cls)
        IN  Flatten([i \in 1..Len(mappings) |->
                candidate(fam, forward, <<molecules[m].cls>>, <<mappings[i]>>)])])

\* the mapping loops of one pair of molecules, A in slotA and B in slotB
pairMappings(fam, forward, molA, molB, slotA, slotB) ==
    LET mappingsA == matchReactantToTemplate(fam, forward, slotA, molA.cls)
        mappingsB == matchReactantToTemplate(fam, forward, slotB, molB.cls)
    IN  Flatten([i \in 1..Len(mappingsA) |->
            Flatten([j \in 1..Len(mappingsB) |->
                candidate(fam, forward, <<molA.cls, molB.cls>>,
                          IF slotA = 1 THEN <<mappingsA[i], mappingsB[j]>>
                          ELSE <<mappingsB[j], mappingsA[i]>>)])])

\* the bimolecular branch; the swapped assignment is tried unless the two
\* reactant lists are one object
bimolecular(fam, forward, moleculesA, moleculesB, same) ==
    Flatten([a \in 1..Len(moleculesA) |->
        Flatten([b \in 1..Len(moleculesB) |->
            pairMappings(fam, forward, moleculesA[a], moleculesB[b], 1, 2)
            \o (IF ~same
                THEN pairMappings(fam, forward, moleculesA[a], moleculesB[b], 2, 1)
                ELSE <<>>)])])

\* the matching of two molecules in the one order only
sameMoleculesMutOrder(ms, ms0) ==
    /\ Len(ms) = Len(ms0)
    /\ \A i \in 1..Len(ms) :
           \E p \in generateResonanceIsomers(ms0[i]) : isIsomorphic(ms[i], p)

\* whether the molecules ms match the resonance isomers of the molecules of
\* reaction0, for two molecules in either order
sameMolecules(ms, ms0) ==
    IF Len(ms) = 1 /\ Len(ms0) = 1
    THEN \E p \in generateResonanceIsomers(ms0[1]) : isIsomorphic(ms[1], p)
    ELSE IF Len(ms) = 2 /\ Len(ms0) = 2
    THEN \E pA \in generateResonanceIsomers(ms0[1]),
            pB \in generateResonanceIsomers(ms0[2]) :
            \/ isIsomorphic(ms[1], pA) /\ isIsomorphic(ms[2], pB)
            \/ isIsomorphic(ms[1], pB) /\ isIsomorphic(ms[2], pA)
    ELSE FALSE

\* the side of a reaction that the direction generated
generated(reaction, forward) ==
    IF forward THEN reaction.products ELSE reaction.reactants

\* the inner loop of the deduplication: the reactions after index0 that
\* match reaction0 leave the list (removed holds their places) and each
\* adds one to the degeneracy of reaction0
RECURSIVE removeDuplicates(_, _, _, _, _, _)
removeDuplicates(rxns, removed, index0, index, degeneracy, forward) ==
    IF index > Len(rxns)
    THEN [removed |-> removed, degeneracy |-> degeneracy]
    ELSE IF /\ index \notin removed
            /\ sameMolecules(generated(rxns[index], forward),
                             generated(rxns[index0], forward))
    THEN removeDuplicates(rxns, removed \cup {index}, index0, index + 1,
                          degeneracy + 1, forward)
    ELSE removeDuplicates(rxns, removed, index0, index + 1, degeneracy, forward)

\* what stands in the reaction list for an exception raised by the test of
\* the expected products
FilterRaised == [reactants |-> <<>>, products |-> <<>>, degeneracy |-> 0, raw |-> 0]

\* the test of the expected products against reaction0 (products = <<>>
\* when none is given): "match", "no", or "raises".  In the reverse
\* direction and for two molecules the second conjunct of each test is
\* `reactants[1].isIsomorphic(...)`, on the list of reactant lists, which is
\* evaluated, and raises, as soon as products[0] is isomorphic to a
\* resonance isomer of either molecule.
matchesProducts(products, reaction0, forward) ==
    IF products = <<>> THEN "match"
    ELSE IF forward
    THEN IF sameMolecules(products, reaction0.products) THEN "match" ELSE "no"
    ELSE IF Len(products) = 1 /\ Len(reaction0.reactants) = 1
    THEN IF \E r \in generateResonanceIsomers(reaction0.reactants[1]) :
                isIsomorphic(products[1], r)
         THEN "match" ELSE "no"
    ELSE IF Len(products) = 2 /\ Len(reaction0.reactants) = 2
    THEN IF \E rA \in generateResonanceIsomers(reaction0.reactants[1]),
               rB \in generateResonanceIsomers(reaction0.reactants[2]) :
                isIsomorphic(products[1], rA) \/ isIsomorphic(products[1], rB)
         THEN "raises" ELSE "no"
    ELSE "no"

\* the exception of `reactants[1].isIsomorphic(...)`: reactants is the list
\* of the wrapped reactants, each a list of molecules
listIsIsomorphic(reactants) ==
    IF Len(reactants) < 2 THEN "IndexError" ELSE "AttributeError"

\* the outer loop of the deduplication, with the expected-products filter
RECURSIVE deduplicate(_, _, _, _, _, _)
deduplicate(rxns, removed, index0, out, products, forward) ==
    IF index0 > Len(rxns) THEN out
    ELSE IF index0 \in removed
    THEN deduplicate(rxns, removed, index0 + 1, out, products, forward)
    ELSE IF matchesProducts(products, rxns[index0], forward) = "no"
    THEN deduplicate(rxns, removed, index0 + 1, out, products, forward)
    ELSE IF matchesProducts(products, rxns[index0], forward) = "raises"
    THEN Append(out, FilterRaised)
    ELSE LET rest(r) ==
                 deduplicate(rxns, r.removed, index0 + 1,
                     Append(out, [rxns[index0] EXCEPT !.degeneracy = r.degeneracy,
                                                      !.raw = r.degeneracy]),
                     products, forward)
         IN  Bind(removeDuplicates(rxns, removed, index0, index0 + 1,
                                   rxns[index0].degeneracy, forward),
                  rest)

\* the deduplication of the candidate reactions
deduplicated(rxns, products, forward) ==
    deduplicate(rxns, {}, 1, <<>>, products, forward)

\* whether the recipe raised InvalidActionError for a candidate
anyRaisedMutNever(rxns) == FALSE
anyRaised(rxns) == \E i \in 1..Len(rxns) : rxns[i] = Raised

\* whether a ForbiddenStructureException left the loop body
anyEscaped(rxns) == \E i \in 1..Len(rxns) : rxns[i] = Escaped

\* the halving of the degeneracies, rounding where it should assert
halveDegeneraciesMutRound(rxns, halving) ==
    IF ~halving THEN [rxns |-> rxns, err |-> "none"]
    ELSE [rxns |-> [i \in 1..Len(rxns) |->
                       [rxns[i] EXCEPT !.degeneracy = @ \div 2]],
          err |-> "none"]

\* the halving of the degeneracies for A + A and for R_Recombination
halveDegeneracies(rxns, halving) ==
    IF ~halving THEN [rxns |-> rxns, err |-> "none"]
    ELSE IF \E i \in 1..Len(rxns) : rxns[i].degeneracy % 2 # 0
    THEN [rxns |-> <<>>, err |-> "AssertionError"]
    ELSE [rxns |-> [i \in 1..Len(rxns) |->
                       [rxns[i] EXCEPT !.degeneracy = @ \div 2]],
          err |-> "none"]

\* the reactant arguments: a Molecule (lid = 0) or a list of Molecules, the
\* list object known by lid; a molecule object by oid
Mol(oid, cls) == [oid |-> oid, cls |-> cls]
Bare(m) == [lid |-> 0, mols |-> <<m>>]
List(lid, ms) == [lid |-> lid, mols |-> ms]

\* reactants[0] == reactants[1] after the wrapping
sameReactants(reactants) ==
    Len(reactants) = 2 /\ reactants[1].mols = reactants[2].mols

\* reactants[0] is reactants[1] after the wrapping: a Molecule is wrapped
\* in a list of its own
sameObject(reactants) ==
    reactants[1].lid # 0 /\ reactants[1].lid = reactants[2].lid

\* __generateReactions up to the halving
generateCandidates(fam, reactants, forward) ==
    IF ~forward /\ fam.ownReverse THEN <<>>
    ELSE IF Len(reactants) = 1 /\ templateReactants(fam, forward) = 1
    THEN unimolecular(fam, forward, reactants[1].mols)
    ELSE IF Len(reactants) = 2 /\ templateReactants(fam, forward) = 2
    THEN bimolecular(fam, forward, reactants[1].mols, reactants[2].mols,
                     sameObject(reactants))
    ELSE <<>>

\* __generateReactions from the candidates on
\* the exception that ends the mapping loops: that of the first candidate
\* that raised one
raisedFirst(rxns) ==
    LET i == CHOOSE i \in 1..Len(rxns) :
                 /\ rxns[i] \in {Raised, Escaped}
                 /\ \A j \in 1..(i - 1) : rxns[j] \notin {Raised, Escaped}
    IN  IF rxns[i] = Raised THEN "InvalidActionError"
        ELSE "ForbiddenStructureException"

finishGeneration(fam, reactants, products, forward, rxns) ==
    IF anyRaised(rxns) \/ anyEscaped(rxns)
    THEN [rxns |-> <<>>, err |-> raisedFirst(rxns)]
    ELSE LET halve(rxnList0) ==
                 IF rxnList0 # <<>> /\ rxnList0[Len(rxnList0)] = FilterRaised
                 THEN [rxns |-> <<>>, err |-> listIsIsomorphic(reactants)]
                 ELSE halveDegeneracies(rxnList0,
                          sameReactants(reactants) \/ isRecombination(fam))
         IN  Bind(deduplicated(rxns, products, forward), halve)

generateForward(fam, reactants, products) ==
    LET finish(rxns) == finishGeneration(fam, reactants, products, TRUE, rxns)
    IN  Bind(generateCandidates(fam, reactants, TRUE), finish)

\* calculateDegeneracy: the forward generation from the reactants of the
\* reaction, filtered by its products
calculateDegeneracy(fam, reaction) ==
    LET only(r) ==
            IF r.err # "none" THEN [degeneracy |-> 0, err |-> r.err]
            ELSE IF Len(r.rxns) # 1 THEN [degeneracy |-> 0, err |-> "Exception"]
            ELSE [degeneracy |-> r.rxns[1].degeneracy, err |-> "none"]
    IN  Bind(generateForward(fam,
                 [i \in 1..Len(reaction.reactants) |->
                     Bare(Mol(10 + i, reaction.reactants[i]))],
                 reaction.products),
             only)

\* the last loop of __generateReactions in the reverse direction
RECURSIVE recalculate(_, _, _, _)
recalculate(fam, rxns, i, out) ==
    IF i > Len(rxns) THEN [rxns |-> out, err |-> "none"]
    ELSE LET next(d) ==
                 IF d.err # "none" THEN [rxns |-> <<>>, err |-> d.err]
                 ELSE recalculate(fam, rxns, i + 1,
                          Append(out, [rxns[i] EXCEPT !.degeneracy = d.degeneracy]))
         IN  Bind(calculateDegeneracy(fam, rxns[i]), next)

generateReverse(fam, reactants, products) ==
    IF fam.ownReverse THEN [rxns |-> <<>>, err |-> "none"]
    ELSE LET again(h) == IF h.err # "none" THEN h
                         ELSE recalculate(fam, h.rxns, 1, <<>>)
             finish(rxns) ==
                 Bind(finishGeneration(fam, reactants, products, FALSE, rxns), again)
         IN  Bind(generateCandidates(fam, reactants, FALSE), finish)

\* the molecules among the reactants that a pass of the mapping loops
\* labels: __generateProductStructures clears the labels of the molecules it
\* is given and tags their atoms with the labels of the mappings, on the
\* molecules themselves (family.py:1118-1127)
labeledBy(fam, forward, reactants) ==
    IF ~forward /\ fam.ownReverse THEN {}
    ELSE IF Len(reactants) = 1 /\ templateReactants(fam, forward) = 1
    THEN {reactants[1].mols[m].oid : m \in
             {k \in 1..Len(reactants[1].mols) :
                 matchReactantToTemplate(fam, forward, 1, reactants[1].mols[k].cls) # <<>>}}
    ELSE IF Len(reactants) = 2 /\ templateReactants(fam, forward) = 2
    THEN UNION { {reactants[1].mols[a].oid, reactants[2].mols[b].oid} :
                   <<a, b>> \in
                     {ab \in (1..Len(reactants[1].mols)) \X (1..Len(reactants[2].mols)) :
                        \/ /\ matchReactantToTemplate(fam, forward, 1,
                                  reactants[1].mols[ab[1]].cls) # <<>>
                           /\ matchReactantToTemplate(fam, forward, 2,
                                  reactants[2].mols[ab[2]].cls) # <<>>
                        \/ /\ ~sameObject(reactants)
                           /\ matchReactantToTemplate(fam, forward, 2,
                                  reactants[1].mols[ab[1]].cls) # <<>>
                           /\ matchReactantToTemplate(fam, forward, 1,
                                  reactants[2].mols[ab[2]].cls) # <<>>} }
    ELSE {}

\* the molecules the last loop of __generateReactions unlabels: the
\* reactants of the reactions it returns, which in the forward direction are
\* the molecules passed in and in the reverse direction the products made
\* (family.py:1521-1541)
unlabeledBy(rxns, forward) ==
    IF forward
    THEN UNION { {rxns[i].reactants[j] : j \in 1..Len(rxns[i].reactants)} :
                   i \in 1..Len(rxns) }
    ELSE {}

\* the labeled molecules after a call of __generateReactions with result r;
\* a call that raises leaves the labels of the mappings it went through
labelsAfter(before, fam, forward, reactants, r) ==
    IF r.err # "none" THEN before \cup labeledBy(fam, forward, reactants)
    ELSE (before \cup labeledBy(fam, forward, reactants)) \ unlabeledBy(r.rxns, forward)

\* the reverse of a reaction of a family that is its own reverse: generated
\* from the products, which must give the one reaction back to the reactants
RECURSIVE reverseEach(_, _, _)
reverseEach(fam, rxns, i) ==
    IF i > Len(rxns) THEN "none"
    ELSE LET next(d) ==
                 IF d.err = "Exception" THEN "AssertionError"
                 ELSE IF d.err # "none" THEN d.err
                 ELSE reverseEach(fam, rxns, i + 1)
         IN  Bind(calculateDegeneracy(fam, [reactants |-> rxns[i].products,
                                            products |-> rxns[i].reactants]),
                  next)

\* generateReactions: the forward generation, then the reverse of each
\* reaction or the generation in the reverse direction
generateReactions(fam, reactants, before) ==
    LET reverse(f) ==
            IF f.err # "none"
            THEN [rxns |-> <<>>, err |-> f.err,
                  labeledMols |-> labelsAfter(before, fam, TRUE, reactants, f)]
            ELSE IF fam.ownReverse
            THEN LET e == reverseEach(fam, f.rxns, 1)
                 IN  [rxns |-> IF e = "none" THEN f.rxns ELSE <<>>, err |-> e,
                      labeledMols |-> labelsAfter(before, fam, TRUE, reactants, f)]
            ELSE LET both(r) ==
                         [rxns |-> IF r.err = "none" THEN f.rxns \o r.rxns ELSE <<>>,
                          err |-> r.err,
                          labeledMols |->
                              labelsAfter(labelsAfter(before, fam, TRUE, reactants, f),
                                          fam, FALSE, reactants, r)]
                 IN  Bind(generateReverse(fam, reactants, <<>>), both)
    IN  Bind(generateForward(fam, reactants, <<>>), reverse)

(***************************************************************************)
(* The calls of the generator specification.                               *)
(***************************************************************************)
FragPool == {4, 5, 6}

SiteTables == SeqsUpTo(FragPool, MaxMaps)

SiteTables2 == { <<>>, <<4>>, <<6>>, <<6, 4>> }

molA == Mol(1, 1)
molA2 == Mol(2, 2)
molB == Mol(3, 3)

UniArgs == { <<Bare(molA)>>, <<Bare(molB)>>, <<List(2, <<molA, molA2>>)>> }

BiArgs ==
    { <<Bare(molA), Bare(molA)>>,
      <<Bare(molA), Bare(molB)>>,
      <<Bare(molB), Bare(molA)>>,
      <<List(1, <<molA>>), List(1, <<molA>>)>>,
      <<List(2, <<molA, molA2>>), List(2, <<molA, molA2>>)>>,
      <<List(2, <<molA, molA2>>), List(3, <<molA, molA2>>)>>,
      <<List(2, <<molA, molA2>>), Bare(molB)>> }

\* the expected products a caller passes: none, or the products of a reaction
ProductFilters == { <<>>, <<4>>, <<4, 6>>, <<46>> }

InitGen ==
    /\ struct = [label |-> <<"", "", "">>,
                 bond |-> [p \in Pairs |-> 0],
                 rad |-> [a \in Atoms |-> 0]]
    /\ struct0 = struct
    /\ pre = struct
    /\ recipe = <<>>
    /\ recipe0 = <<>>
    /\ nrev = 0
    /\ hist = <<>>
    /\ err = "none"
    /\ events = <<>>
    /\ connectivity = "valid"
    /\ PairsIdle
    /\ family \in Families
    /\ sitesA1 \in SiteTables
    /\ sitesA2 \in SiteTables2
    /\ resSites \in BOOLEAN
    /\ call = NoCall
    /\ candidates = <<>>
    /\ rxnListRaw = <<>>
    /\ rxnList = <<>>
    /\ genErr = "none"
    /\ labeledMols = {}
    /\ RulesIdle

\* self.__generateReactions(reactants, products, forward=True)
GenerateForward ==
    /\ call = NoCall
    /\ \E reactants \in UniArgs \cup BiArgs, products \in ProductFilters :
       \E r \in {generateForward(family, reactants, products)} :
             /\ call' = [kind |-> "forward", reactants |-> reactants,
                         products |-> products]
             /\ candidates' = generateCandidates(family, reactants, TRUE)
             /\ rxnListRaw' = IF anyRaised(candidates') THEN <<>>
                              ELSE deduplicated(candidates', products, TRUE)
             /\ rxnList' = r.rxns
             /\ genErr' = r.err
             /\ labeledMols' = labelsAfter(labeledMols, family, TRUE, reactants, r)
    /\ UNCHANGED <<family, sitesA1, sitesA2, resSites>>
    /\ UNCHANGED <<rvars, pvars>>
    /\ UNCHANGED kvars

\* self.__generateReactions(reactants, products, forward=False), the
\* expected products drawn from the set
generateReverseExpecting(filters) ==
    /\ call = NoCall
    /\ \E reactants \in UniArgs \cup BiArgs, products \in filters :
       \E r \in {generateReverse(family, reactants, products)} :
             /\ call' = [kind |-> "reverse", reactants |-> reactants,
                         products |-> products]
             /\ candidates' = generateCandidates(family, reactants, FALSE)
             /\ rxnListRaw' = IF anyRaised(candidates') THEN <<>>
                              ELSE deduplicated(candidates', products, FALSE)
             /\ rxnList' = r.rxns
             /\ genErr' = r.err
             /\ labeledMols' = labelsAfter(labeledMols, family, FALSE, reactants, r)
    /\ UNCHANGED <<family, sitesA1, sitesA2, resSites>>
    /\ UNCHANGED <<rvars, pvars>>
    /\ UNCHANGED kvars

\* self.__generateReactions(reactants, forward=False)
GenerateReverse == generateReverseExpecting({<<>>})

NextGen == GenerateForward \/ GenerateReverse

SpecGen == InitGen /\ [][NextGen]_vars

(***************************************************************************)
(* Claims about the generator.                                             *)
(***************************************************************************)
called == call.kind # "none"
callForward == call.kind = "forward"

noneRaised == \A i \in 1..Len(candidates) : candidates[i] # Raised

\* the call halves: A + A, or the radical recombination family
callHalves == sameReactants(call.reactants) \/ isRecombination(family)

\* two lists of one or two molecules, isomorphic one to one, in either order
isomorphicLists(ps, qs) ==
    \/ Len(ps) = 1 /\ Len(qs) = 1 /\ ps[1] = qs[1]
    \/ /\ Len(ps) = 2 /\ Len(qs) = 2
       /\ \/ ps[1] = qs[1] /\ ps[2] = qs[2]
          \/ ps[1] = qs[2] /\ ps[2] = qs[1]

\* the lowest resonance isomer of a molecule
firstIsomer(c) ==
    CHOOSE d \in generateResonanceIsomers(c) :
        \A e \in generateResonanceIsomers(c) : d <= e

\* two lists of one or two molecules, the same one to one up to resonance
\* isomers, in either order
sameSpeciesLists(ps, qs) ==
    /\ Len(ps) = Len(qs)
    /\ isomorphicLists([i \in 1..Len(ps) |-> firstIsomer(ps[i])],
                       [i \in 1..Len(qs) |-> firstIsomer(qs[i])])

passesFilter(reaction) ==
    call.products = <<>>
    \/ sameSpeciesLists(call.products, generated(reaction, callForward))

\* C4 as stated: the k candidates with isomorphic products (two products in
\* either order) are one reaction of the result, of raw degeneracy k, and no
\* two reactions of the result have isomorphic products.
DeduplicationByIsomorphism ==
    (called /\ genErr = "none" /\ call.products = <<>>) =>
        /\ \A i \in 1..Len(candidates) :
             LET ps == generated(candidates[i], callForward)
                 k == Cardinality({j \in 1..Len(candidates) :
                          isomorphicLists(generated(candidates[j], callForward), ps)})
             IN  Cardinality({n \in 1..Len(rxnList) :
                     /\ isomorphicLists(generated(rxnList[n], callForward), ps)
                     /\ rxnList[n].raw = k}) = 1
        /\ \A m, n \in 1..Len(rxnList) :
             isomorphicLists(generated(rxnList[m], callForward),
                             generated(rxnList[n], callForward)) => m = n

\* C4 as amended: the k candidates whose products are the same up to
\* resonance isomers (two products in either order) and pass the expected
\* products filter, if one is given, are one reaction of the result, of raw
\* degeneracy k; no two reactions of the result have products that are the
\* same up to resonance isomers, and every reaction of the result is one of
\* the candidates.
DeduplicationBySpecies ==
    (called /\ genErr = "none") =>
        /\ \A i \in 1..Len(candidates) :
             LET ps == generated(candidates[i], callForward)
                 k == Cardinality({j \in 1..Len(candidates) :
                          sameSpeciesLists(generated(candidates[j], callForward), ps)})
             IN  passesFilter(candidates[i]) =>
                     Cardinality({n \in 1..Len(rxnList) :
                         /\ sameSpeciesLists(generated(rxnList[n], callForward), ps)
                         /\ rxnList[n].raw = k}) = 1
        /\ \A m, n \in 1..Len(rxnList) :
             sameSpeciesLists(generated(rxnList[m], callForward),
                              generated(rxnList[n], callForward)) => m = n
        /\ \A n \in 1..Len(rxnList) :
             /\ passesFilter(rxnList[n])
             /\ \E i \in 1..Len(candidates) :
                    /\ candidates[i].reactants = rxnList[n].reactants
                    /\ candidates[i].products = rxnList[n].products

DeduplicationWitness ==
    /\ callForward
    /\ genErr = "none"
    /\ call.products = <<>>
    /\ Len(rxnList) = 3
    /\ \E n \in 1..Len(rxnList) : rxnList[n].raw = 4
    /\ \E i, j \in 1..Len(candidates) :
           /\ candidates[i].products = <<4, 6>>
           /\ candidates[j].products = <<6, 4>>

\* C5: in a bimolecular call with the same reactant twice, however it is
\* supplied, every deduplicated reaction has an even degeneracy before the
\* halving.
EvenRawDegeneracy ==
    (/\ called
     /\ Len(call.reactants) = 2
     /\ templateReactants(family, callForward) = 2
     /\ sameReactants(call.reactants)
     /\ noneRaised) =>
        \A n \in 1..Len(rxnListRaw) : rxnListRaw[n].raw % 2 = 0

\* C6: when the two reactants are the same or the family is the radical
\* recombination, every degeneracy is halved once, an odd one makes the call
\* fail with an AssertionError and nothing is returned; otherwise the
\* degeneracy is returned as counted.
HalvedOnce ==
    (called /\ noneRaised) =>
        IF callHalves
        THEN IF \E n \in 1..Len(rxnListRaw) : rxnListRaw[n].raw % 2 # 0
             THEN genErr = "AssertionError" /\ rxnList = <<>>
             ELSE (callForward /\ genErr = "none") =>
                      /\ Len(rxnList) = Len(rxnListRaw)
                      /\ \A n \in 1..Len(rxnList) :
                             2 * rxnList[n].degeneracy = rxnListRaw[n].raw
        ELSE (callForward /\ genErr = "none") =>
                 /\ Len(rxnList) = Len(rxnListRaw)
                 /\ \A n \in 1..Len(rxnList) :
                        rxnList[n].degeneracy = rxnListRaw[n].raw

HalvedOnceWitness ==
    /\ callForward
    /\ genErr = "none"
    /\ isRecombination(family)
    /\ sameReactants(call.reactants)
    /\ Len(rxnList) = 2
    /\ rxnList[1].raw = 4
    /\ rxnList[1].degeneracy = 2

(***************************************************************************)
(* The rate rules.  The groups of the template tree are 1..4: 1 is the     *)
(* top-level node, 2 and 3 are its children and 4 is the child of 2.  A    *)
(* template is a tuple of two groups and its label is the tuple of their   *)
(* labels.  Numbers stand for the rate parameters; the mean of A is the    *)
(* geometric mean and the others the arithmetic mean, rounded down.        *)
(***************************************************************************)
MaxRules == 3
MaxDegeneracy == 2

Groups == 1..4

\* group.parent, 0 for the top-level node
parent == <<0, 1, 1, 2>>

\* group.children
children(g) == {c \in Groups : parent[c] = g}

\* one piece of a comment: the text and the templates formatted into it
Token(text, arg) == [text |-> text, arg |-> arg]

\* Entry(index, label, item, data, rank) of the rule store
Entry(index, label, rank) ==
    [index |-> index, label |-> label, rank |-> rank,
     data |-> [A |-> 10 + index,
               Aunits |-> IF index = 2 THEN "cm^3/(mol*s)" ELSE "m^3/(mol*s)",
               n |-> index, E0 |-> rank,
               comment |-> IF index = 0 THEN <<Token("(Average of)", <<>>)>>
                           ELSE <<>>]]

\* the key of an entry in the dictionary self.rules.entries: its index, or
\* its label for the entries that the averaging stores
key(e) == <<e.index, IF e.index = 0 THEN e.label ELSE <<>>>>

RuleLabels == { <<4, 3>>, <<3, 4>>, <<2, 3>>, <<4, 1>>, <<2, 1>> }

EntryPool ==
    { Entry(i, l, r) : i \in {2, 5}, l \in RuleLabels, r \in {0, 3} }
    \cup { Entry(0, l, 10) : l \in {<<4, 3>>, <<3, 4>>} }

\* the stores of up to n entries, no two under the same key
RECURSIVE StoresUpTo(_)
StoresUpTo(n) ==
    IF n = 0 THEN {<<>>}
    ELSE LET extend(shorter) ==
                 shorter \cup
                 { Append(s, e) : s \in {t \in shorter : Len(t) = n - 1},
                                  e \in EntryPool }
             distinct(t) == \A i, j \in 1..Len(t) : i # j => key(t[i]) # key(t[j])
         IN  {t \in Bind(StoresUpTo(n - 1), extend) : distinct(t)}

RuleStores == StoresUpTo(MaxRules)

\* self.label.lower() == 'r_recombination'
labelIsRecombination(fam) == fam.label = "R_Recombination"

\* the order of the keys (rank, index)
lessKey(a, b) == a[1] < b[1] \/ (a[1] = b[1] /\ a[2] < b[2])

\* the key that sorts by the index only
rankedKeyMutIndex(e) == <<0, e.index>>

\* key=lambda x: (x.rank, x.index)
rankedKey(e) == <<e.rank, e.index>>

\* key=lambda x: x.index
indexKey(e) == <<0, e.index>>

\* entries.sort(key=...); entries[0]: the sort is stable, so the first of
\* the entries with the least key; byRank tells which of the two keys
sortedFirst(entries, byRank) ==
    LET k(e) == IF byRank THEN rankedKey(e) ELSE indexKey(e)
        i == CHOOSE i \in 1..Len(entries) :
                 /\ \A j \in 1..Len(entries) : ~lessKey(k(entries[j]), k(entries[i]))
                 /\ \A j \in 1..(i - 1) : lessKey(k(entries[i]), k(entries[j]))
    IN  entries[i]

\* the entries of the store with the label, in the order of iteration
matching(store, label) == SelectSeq(store, LAMBDA e : e.label = label)

\* template.reverse()
reversed(template) == <<template[2], template[1]>>

\* a lookup that tries the swapped label only when no entry has the label
getRateRuleMutRetry(fam, store, template) ==
    LET entries == IF /\ Len(matching(store, template)) = 0
                      /\ labelIsRecombination(fam)
                      /\ template[1] # template[2]
                   THEN matching(store, reversed(template))
                   ELSE matching(store, template)
    IN  IF Len(entries) = 1 THEN [entry |-> entries[1], err |-> "none"]
        ELSE IF Len(entries) > 1
        THEN IF \E i \in 1..Len(entries) : entries[i].rank > 0
             THEN [entry |-> sortedFirst(SelectSeq(entries, LAMBDA e : e.rank > 0),
                                         TRUE),
                   err |-> "none"]
             ELSE [entry |-> sortedFirst(entries, FALSE), err |-> "none"]
        ELSE [entry |-> NoEntry, err |-> "ValueError"]

\* getRateRule(template)
getRateRule(fam, store, template) ==
    LET entries == matching(store, template)
                   \o (IF labelIsRecombination(fam) /\ template[1] # template[2]
                       THEN matching(store, reversed(template))
                       ELSE <<>>)
    IN  IF Len(entries) = 1 THEN [entry |-> entries[1], err |-> "none"]
        ELSE IF Len(entries) > 1
        THEN IF \E i \in 1..Len(entries) : entries[i].rank > 0
             THEN [entry |-> sortedFirst(SelectSeq(entries, LAMBDA e : e.rank > 0),
                                         TRUE),
                   err |-> "none"]
             ELSE [entry |-> sortedFirst(entries, FALSE), err |-> "none"]
        ELSE [entry |-> NoEntry, err |-> "ValueError"]

\* a lookup that wants a rule of rank > 0
hasRateRuleMutRank(fam, store, template) ==
    /\ getRateRule(fam, store, template).err = "none"
    /\ getRateRule(fam, store, template).entry.rank > 0

\* hasRateRule(template)
hasRateRule(fam, store, template) ==
    getRateRule(fam, store, template).err = "none"

RECURSIVE product(_)
product(xs) == IF xs = <<>> THEN 1 ELSE Head(xs) * product(Tail(xs))

RECURSIVE sum(_)
sum(xs) == IF xs = <<>> THEN 0 ELSE Head(xs) + sum(Tail(xs))

RECURSIVE power(_, _)
power(m, k) == IF k = 0 THEN 1 ELSE m * power(m, k - 1)

\* 10 ** (the mean of the log10 of the values)
geometricMean(xs) ==
    CHOOSE m \in 0..sum(xs) :
        power(m, Len(xs)) <= product(xs) /\ power(m + 1, Len(xs)) > product(xs)

\* __getAverageKinetics(kineticsList)
\* The truth value Python gives a string used as a condition: every string
\* but the empty one is true.
truthy(literal) == literal # ""

InvalidUnits == "Exception: Invalid units for averaging kinetics"

\* The chain of tests on the units of A, as Python evaluates it:
\* `Aunits == 'cm^3/(mol*s)' or 'cm^3/(molecule*s)' or 'm^3/(molecule*s)'`
\* is the disjunction of one comparison and two string literals.
averageUnits(Aunits) ==
    IF \/ Aunits = "cm^3/(mol*s)"
       \/ truthy("cm^3/(molecule*s)")
       \/ truthy("m^3/(molecule*s)")
    THEN "m^3/(mol*s)"
    ELSE IF \/ Aunits = "cm^6/(mol^2*s)"
            \/ truthy("cm^6/(molecule^2*s)")
            \/ truthy("m^6/(molecule^2*s)")
    THEN "m^6/(mol^2*s)"
    ELSE IF Aunits = "s^-1" \/ Aunits = "m^3/(mol*s)" \/ Aunits = "m^6/(mol^2*s)"
    THEN Aunits
    ELSE InvalidUnits

\* Whether averaging this list raises the exception of the last branch.
averageRaises(kineticsList) == averageUnits(kineticsList[1].Aunits) = InvalidUnits

getAverageKinetics(kineticsList) ==
    [A |-> geometricMean([i \in 1..Len(kineticsList) |-> kineticsList[i].A]),
     Aunits |-> averageUnits(kineticsList[1].Aunits),
     n |-> sum([i \in 1..Len(kineticsList) |-> kineticsList[i].n])
               \div Len(kineticsList),
     E0 |-> sum([i \in 1..Len(kineticsList) |-> kineticsList[i].E0])
               \div Len(kineticsList),
     comment |-> <<>>]

\* the estimate that leaves A as the rule has it
scaleMutNone(k, degeneracy) == k

\* kinetics.A.value_si *= degeneracy
scale(k, degeneracy) == [k EXCEPT !.A = @ * degeneracy]

\* the kinetics of the templates of the list that have a rate rule, each
\* with its template
kineticsListOf(fam, store, templateList) ==
    LET found == SelectSeq(templateList, LAMBDA t : hasRateRule(fam, store, t))
    IN  [i \in 1..Len(found) |->
            [kinetics |-> getRateRule(fam, store, found[i]).entry.data,
             t |-> found[i]]]

\* the kinetics returned from a level that has a rate rule
kineticsOf(kineticsList, template, degeneracy) ==
    LET k == IF Len(kineticsList) = 1
             THEN [kineticsList[1].kinetics EXCEPT !.comment =
                      @ \o (IF kineticsList[1].t = template
                            THEN <<Token("Exact match found", <<>>)>>
                            ELSE <<Token("Estimated using template ",
                                         <<kineticsList[1].t>>)>>)]
             ELSE [getAverageKinetics([i \in 1..Len(kineticsList) |->
                                          kineticsList[i].kinetics])
                      EXCEPT !.comment =
                      @ \o <<Token("Estimated using average of templates ",
                                   [i \in 1..Len(kineticsList) |-> kineticsList[i].t])>>]
    IN  scale([k EXCEPT !.comment = @ \o <<Token(" for rate rule ", <<template>>)>>],
              degeneracy)

\* t not in templateList, over the whole list
RECURSIVE unique(_, _)
unique(ts, acc) ==
    IF ts = <<>> THEN acc
    ELSE unique(Tail(ts),
                IF \E i \in 1..Len(acc) : acc[i] = Head(ts) THEN acc
                ELSE Append(acc, Head(ts)))

\* the next level, a template kept as often as it is made
nextLevelMutRepeat(templateList0) ==
    Flatten([k \in 1..Len(templateList0) |->
        Flatten([index \in 1..2 |->
            IF parent[templateList0[k][index]] = 0 THEN <<>>
            ELSE <<[templateList0[k] EXCEPT ![index] = parent[@]]>>])])

\* the next level of the estimator: each template of the level with one of
\* its groups replaced by the parent of the group
nextLevel(templateList0) ==
    unique(Flatten([k \in 1..Len(templateList0) |->
               Flatten([index \in 1..2 |->
                   IF parent[templateList0[k][index]] = 0 THEN <<>>
                   ELSE <<[templateList0[k] EXCEPT ![index] = parent[@]]>>])]),
           <<>>)

\* estimateKineticsUsingRateRules(template, degeneracy): the loop over the
\* levels, from the level templateList on
RECURSIVE estimateFrom(_, _, _, _, _, _)
estimateFrom(fam, store, template, degeneracy, templateList, visited) ==
    IF Len(templateList) = 0
    THEN [kinetics |-> NoKinetics, levels |-> visited, err |-> "Exception"]
    ELSE LET kineticsList == kineticsListOf(fam, store, templateList)
         IN  IF Len(kineticsList) > 0
             THEN [kinetics |-> kineticsOf(kineticsList, template, degeneracy),
                   levels |-> Append(visited, templateList),
                   err |-> "none"]
             ELSE estimateFrom(fam, store, template, degeneracy,
                               nextLevel(templateList),
                               Append(visited, templateList))

estimateKineticsUsingRateRules(fam, store, template, degeneracy) ==
    estimateFrom(fam, store, template, degeneracy, <<template>>, <<>>)

(***************************************************************************)
(* The calls of the rate rule specification.                               *)
(***************************************************************************)
Queries == { <<4, 3>>, <<3, 4>>, <<2, 3>>, <<4, 4>>, <<1, 1>> }

InitRules ==
    /\ struct = [label |-> <<"", "", "">>,
                 bond |-> [p \in Pairs |-> 0],
                 rad |-> [a \in Atoms |-> 0]]
    /\ struct0 = struct
    /\ pre = struct
    /\ recipe = <<>>
    /\ recipe0 = <<>>
    /\ nrev = 0
    /\ hist = <<>>
    /\ err = "none"
    /\ events = <<>>
    /\ connectivity = "valid"
    /\ PairsIdle
    /\ family \in {f \in Families : f.label \in {"R_Recombination", "H_Abstraction"}}
    /\ sitesA1 = <<>>
    /\ sitesA2 = <<>>
    /\ resSites = FALSE
    /\ call = NoCall
    /\ candidates = <<>>
    /\ rxnListRaw = <<>>
    /\ rxnList = <<>>
    /\ genErr = "none"
    /\ labeledMols = {}
    /\ rules \in RuleStores
    /\ kcall = NoCall
    /\ entry = NoEntry
    /\ kinetics = NoKinetics
    /\ levels = <<>>
    /\ kerr = "none"
    /\ pc = "idle"
    /\ loopList = <<>>
    /\ rules0 = <<>>
    /\ alreadyDone = <<>>
    /\ computed = <<>>
    /\ depositories = <<>>
    /\ consulted = <<>>
    /\ results = <<>>

\* self.getRateRule(template)
GetRateRule ==
    /\ kcall = NoCall
    /\ \E template \in Queries :
         LET r == getRateRule(family, rules, template)
         IN  /\ kcall' = [kind |-> "getRateRule", template |-> template,
                          degeneracy |-> 0]
             /\ entry' = r.entry
             /\ kerr' = r.err
    /\ UNCHANGED <<rules, kinetics, levels, pc, loopList, rules0, alreadyDone, computed, depositories,
               consulted, results>>
    /\ UNCHANGED <<rvars, pvars>>
    /\ UNCHANGED gvars

\* self.estimateKineticsUsingRateRules(template, degeneracy)
EstimateKineticsUsingRateRules ==
    /\ kcall = NoCall
    /\ \E template \in Queries, degeneracy \in 1..MaxDegeneracy :
         LET r == estimateKineticsUsingRateRules(family, rules, template, degeneracy)
         IN  /\ kcall' = [kind |-> "estimate", template |-> template,
                          degeneracy |-> degeneracy]
             /\ kinetics' = r.kinetics
             /\ levels' = r.levels
             /\ kerr' = r.err
    /\ UNCHANGED <<rules, entry, pc, loopList, rules0, alreadyDone, computed, depositories,
               consulted, results>>
    /\ UNCHANGED <<rvars, pvars>>
    /\ UNCHANGED gvars

NextRules == GetRateRule \/ EstimateKineticsUsingRateRules

SpecRules == InitRules /\ [][NextRules]_vars

(***************************************************************************)
(* Claims about the rate rules.                                            *)
(***************************************************************************)
lookedUp == kcall.kind = "getRateRule"
estimated == kcall.kind = "estimate"

\* the stored rules that have the label
labelled(label) == {rules[i] : i \in {j \in 1..Len(rules) : rules[j].label = label}}

\* the stored rules a lookup of the template chooses from: those of its
\* label and, in the recombination family with two different groups, those
\* of the swapped label
pool(template) ==
    labelled(template)
    \cup (IF labelIsRecombination(family) /\ template[1] # template[2]
          THEN labelled(reversed(template))
          ELSE {})

\* the rules of rank > 0 of a set if it has any, else the set
ranked(S) == IF \E e \in S : e.rank > 0 THEN {e \in S : e.rank > 0} ELSE S

\* e is the rule of the set S with the least (rank, index) among those of
\* rank > 0, or the least index when all are of rank 0
isLeast(e, S) ==
    /\ e \in ranked(S)
    /\ \A f \in ranked(S) : ~lessKey(<<f.rank, f.index>>, <<e.rank, e.index>>)

\* C7 as stated: when several stored rules have the requested label,
\* getRateRule returns the one of them with the least (rank, index) among
\* those of rank > 0, or with the least index when all have rank 0.
RuleTieBreakByLabel ==
    (lookedUp /\ Cardinality(labelled(kcall.template)) > 1) =>
        /\ kerr = "none"
        /\ entry.label = kcall.template
        /\ isLeast(entry, labelled(kcall.template))

\* C7 as amended: when several stored rules have the requested label or, in
\* the r_recombination family with two different groups, the swapped label,
\* getRateRule returns the one of them with the least (rank, index) among
\* those of rank > 0, or with the least index when all have rank 0; of two
\* with the same rank and index the one with the requested label; whatever
\* the order in which the store is iterated.
RuleTieBreak ==
    (lookedUp /\ Cardinality(pool(kcall.template)) > 1) =>
        /\ kerr = "none"
        /\ isLeast(entry, pool(kcall.template))
        /\ (\E e \in labelled(kcall.template) : isLeast(e, pool(kcall.template)))
               => entry.label = kcall.template

RuleTieBreakWitness ==
    /\ lookedUp
    /\ Len(rules) = 2
    /\ rules[1].label = kcall.template /\ rules[1].rank = 3 /\ rules[1].index = 5
    /\ rules[2].label = kcall.template /\ rules[2].rank = 3 /\ rules[2].index = 2
    /\ entry = rules[2]

\* whether a comment has a piece with the text
notes(comment, text) == \E i \in 1..Len(comment) : comment[i].text = text

\* the stored rules of rank > 0 that have exactly the requested label
exactRanked == {e \in labelled(kcall.template) : e.rank > 0}

\* C8 as stated: when a rule of rank > 0 is stored for exactly the requested
\* template, the estimate is that rule's kinetics with A multiplied by the
\* degeneracy, and its comment notes "Exact match found" and the degeneracy.
ExactMatchNotesDegeneracy ==
    (estimated /\ exactRanked # {}) =>
        /\ kerr = "none"
        /\ \E e \in exactRanked :
              /\ kinetics.A = e.data.A * kcall.degeneracy
              /\ kinetics.n = e.data.n
              /\ kinetics.E0 = e.data.E0
        /\ notes(kinetics.comment, "Exact match found")
        /\ notes(kinetics.comment, "Multiplied by reaction path degeneracy")

\* C8 as amended: when a rule of rank > 0 is stored for exactly the requested
\* template, the estimate is the kinetics of the rule that getRateRule
\* chooses for the template, with A multiplied by the degeneracy and the
\* other parameters unchanged, and its comment is the comment of the rule
\* followed by "Exact match found" and " for rate rule " with the template;
\* the comment does not note the degeneracy.
ExactMatchScaled ==
    (estimated /\ exactRanked # {}) =>
        /\ kerr = "none"
        /\ \E e \in pool(kcall.template) :
              /\ isLeast(e, pool(kcall.template))
              /\ (\E f \in labelled(kcall.template) : isLeast(f, pool(kcall.template)))
                     => e.label = kcall.template
              /\ kinetics.A = e.data.A * kcall.degeneracy
              /\ kinetics.n = e.data.n
              /\ kinetics.E0 = e.data.E0
              /\ kinetics.comment =
                     e.data.comment
                     \o <<Token("Exact match found", <<>>),
                          Token(" for rate rule ", <<kcall.template>>)>>
        /\ ~notes(kinetics.comment, "Multiplied by reaction path degeneracy")

ExactMatchScaledWitness ==
    /\ estimated
    /\ kcall.degeneracy = 2
    /\ Len(rules) = 2
    /\ rules[1].label = kcall.template /\ rules[1].rank = 0
    /\ rules[2].label = kcall.template /\ rules[2].rank = 3
    /\ kinetics.A = 2 * rules[2].data.A
    /\ notes(kinetics.comment, "Exact match found")

\* C9 as stated: when the only exact matches of the requested template have
\* rank 0 the estimator does not return an exact match; it goes on to the
\* next levels.
ExactMatchNeedsRank ==
    (/\ estimated
     /\ pool(kcall.template) # {}
     /\ \A e \in pool(kcall.template) : e.rank = 0) =>
        /\ ~(kerr = "none" /\ notes(kinetics.comment, "Exact match found"))
        /\ Len(levels) > 1

\* C9 as amended: an exact match of the requested template is used directly
\* whatever its rank, of rank 0 too; the estimator goes on to the next
\* levels only when no rule is stored for the requested template.
ExactMatchAnyRank ==
    estimated =>
        IF pool(kcall.template) # {}
        THEN /\ kerr = "none"
             /\ levels = <<<<kcall.template>>>>
             /\ notes(kinetics.comment, "Exact match found")
             /\ \E e \in pool(kcall.template) :
                    kinetics.A = e.data.A * kcall.degeneracy
        ELSE /\ Len(levels) >= 1
             /\ levels[1] = <<kcall.template>>
             /\ (kerr = "none" => Len(levels) > 1)
             /\ ~notes(kinetics.comment, "Exact match found")

ExactMatchAnyRankWitness ==
    /\ estimated
    /\ Len(rules) = 1
    /\ rules[1].label = kcall.template
    /\ rules[1].rank = 0
    /\ kerr = "none"
    /\ kinetics.A = rules[1].data.A * kcall.degeneracy
    /\ notes(kinetics.comment, "Exact match found")

\* the templates of a list
Range(ts) == {ts[i] : i \in 1..Len(ts)}

\* what a group expands to: its children, itself if it has none
expansion(g) == IF children(g) # {} THEN children(g) ELSE {g}

\* a template with one group replaced by the parent of the group
towardParents(t) ==
    { [t EXCEPT ![i] = parent[t[i]]] : i \in {j \in 1..2 : parent[t[j]] # 0} }

\* C10 as stated: each next level is the cartesian product of the groups'
\* expansions to their children, minus the template already tried.
WidenToChildren ==
    estimated =>
        \A k \in 1..(Len(levels) - 1) :
            Range(levels[k + 1]) =
                UNION { { <<a, b>> : a \in expansion(t[1]), b \in expansion(t[2]) }
                        \ {t} : t \in Range(levels[k]) }

\* C10 as amended: when no rule matches at a level, the next level holds,
\* once each, the templates made from a template of the level by replacing
\* one group by its parent (a top-level group is not replaced); the first
\* level is the requested template, and the estimator raises an exception
\* when the next level is empty.  It moves toward parents, never children.
WidenToParents ==
    estimated =>
        /\ Len(levels) >= 1
        /\ levels[1] = <<kcall.template>>
        /\ \A k \in 1..(Len(levels) - 1) :
              /\ Range(levels[k + 1]) = UNION { towardParents(t) : t \in Range(levels[k]) }
              /\ \A i, j \in 1..Len(levels[k + 1]) :
                     levels[k + 1][i] = levels[k + 1][j] => i = j
              /\ \A t \in Range(levels[k]) : pool(t) = {}
        /\ kerr = "none" => \E t \in Range(levels[Len(levels)]) : pool(t) # {}
        /\ kerr # "none" =>
              /\ kerr = "Exception"
              /\ \A t \in Range(levels[Len(levels)]) :
                     pool(t) = {} /\ towardParents(t) = {}

WidenToParentsWitness ==
    /\ estimated
    /\ kcall.template = <<4, 3>>
    /\ kerr = "none"
    /\ Len(levels) = 3
    /\ levels[2] = << <<2, 3>>, <<4, 1>> >>
    /\ levels[3] = << <<1, 3>>, <<2, 1>> >>

(***************************************************************************)
(* The estimator run one pass of its while loop at a time.                 *)
(***************************************************************************)
\* the stores the loop is run on
LoopStores == {s \in RuleStores : Len(s) <= 2}

InitLoop ==
    /\ family \in {f \in Families : f.label \in {"R_Recombination", "H_Abstraction"}}
    /\ sitesA1 = <<>>
    /\ sitesA2 = <<>>
    /\ resSites = FALSE
    /\ call = NoCall
    /\ candidates = <<>>
    /\ rxnListRaw = <<>>
    /\ rxnList = <<>>
    /\ genErr = "none"
    /\ labeledMols = {}
    /\ struct = [label |-> <<"", "", "">>,
                 bond |-> [p \in Pairs |-> 0],
                 rad |-> [a \in Atoms |-> 0]]
    /\ struct0 = struct
    /\ pre = struct
    /\ recipe = <<>>
    /\ recipe0 = <<>>
    /\ nrev = 0
    /\ hist = <<>>
    /\ err = "none"
    /\ events = <<>>
    /\ connectivity = "valid"
    /\ PairsIdle
    /\ rules \in LoopStores
    /\ kcall = NoCall
    /\ entry = NoEntry
    /\ kinetics = NoKinetics
    /\ levels = <<>>
    /\ kerr = "none"
    /\ pc = "idle"
    /\ loopList = <<>>
    /\ rules0 = <<>>
    /\ alreadyDone = <<>>
    /\ computed = <<>>
    /\ depositories = <<>>
    /\ consulted = <<>>
    /\ results = <<>>

\* the call: templateList = [template]
BeginEstimate ==
    /\ pc = "idle"
    /\ \E template \in Queries, degeneracy \in 1..MaxDegeneracy :
         kcall' = [kind |-> "estimate", template |-> template,
                   degeneracy |-> degeneracy]
              /\ loopList' = <<template>>
    /\ pc' = "loop"
    /\ UNCHANGED <<rules, entry, kinetics, levels, kerr, rules0, alreadyDone, computed, depositories,
               consulted, results>>
    /\ UNCHANGED <<rvars, pvars>>
    /\ UNCHANGED gvars

\* a loop that has no end: while True
loopGoesOnMutAlways(templateList) == TRUE

\* while len(templateList) > 0
loopGoesOn(templateList) == Len(templateList) > 0

\* one pass of the while loop, or the raise after it
LoopStep ==
    /\ pc = "loop"
    /\ IF ~loopGoesOn(loopList)
       THEN /\ pc' = "raised"
            /\ kerr' = "Exception"
            /\ UNCHANGED <<kinetics, levels, loopList>>
       ELSE \E kineticsList \in {kineticsListOf(family, rules, loopList)} :
              IF Len(kineticsList) > 0
              THEN /\ kinetics' = kineticsOf(kineticsList, kcall.template,
                                             kcall.degeneracy)
                   /\ levels' = Append(levels, loopList)
                   /\ pc' = "returned"
                   /\ UNCHANGED <<kerr, loopList>>
              ELSE /\ loopList' = nextLevel(loopList)
                   /\ levels' = Append(levels, loopList)
                   /\ UNCHANGED <<pc, kinetics, kerr>>
    /\ UNCHANGED <<rules, kcall, entry, rules0, alreadyDone, computed, depositories,
               consulted, results>>
    /\ UNCHANGED <<rvars, pvars>>
    /\ UNCHANGED gvars

NextLoop == BeginEstimate \/ LoopStep

\* the loop is straight-line code: a pass that can be made is made
SpecLoop == InitLoop /\ [][NextLoop]_vars /\ WF_vars(LoopStep)

(***************************************************************************)
(* Claims about the loop of the estimator.                                 *)
(***************************************************************************)
\* the number of ancestors of a group
RECURSIVE depth(_)
depth(g) == IF parent[g] = 0 THEN 0 ELSE 1 + depth(parent[g])

\* what each pass of the loop makes smaller: one more than the greatest
\* number of steps from a template of the list to the top-level template,
\* 0 for the empty list
measure(ts) ==
    IF ts = <<>> THEN 0
    ELSE 1 + Max(0, CHOOSE d \in {depth(ts[i][1]) + depth(ts[i][2]) : i \in 1..Len(ts)} :
                        \A i \in 1..Len(ts) : depth(ts[i][1]) + depth(ts[i][2]) <= d)

loopDone == pc \in {"returned", "raised"}

\* C11: the estimator terminates: every pass that does not end the call
\* makes the list of templates smaller in measure, a call that began ends,
\* and it ends either returning kinetics at the first level that has a stored
\* rule or, no level having one, raising an exception without kinetics.
EstimateTerminates ==
    /\ [][(pc = "loop" /\ pc' = "loop") => measure(loopList') < measure(loopList)]_vars
    /\ (pc = "loop") ~> loopDone
    /\ [](pc = "returned" =>
            /\ kinetics # NoKinetics
            /\ kerr = "none"
            /\ Len(levels) >= 1
            /\ \E t \in Range(levels[Len(levels)]) : pool(t) # {}
            /\ \A k \in 1..(Len(levels) - 1) : \A t \in Range(levels[k]) : pool(t) = {})
    /\ [](pc = "raised" =>
            /\ kinetics = NoKinetics
            /\ kerr = "Exception"
            /\ loopList = <<>>
            /\ \A k \in 1..Len(levels) : \A t \in Range(levels[k]) : pool(t) = {})

EstimateTerminatesWitness ==
    /\ pc = "raised"
    /\ kcall.template = <<4, 3>>
    /\ Len(levels) = 4
    /\ rules # <<>>

\* ---------------------------------------------------------------------------
\* Filling the gaps of the rule tree by averaging up
\* (fillKineticsRulesByAveragingUp).
\* ---------------------------------------------------------------------------

\* The other state of the module while a family's rules are worked on.
GenIdleFor(fam) ==
    /\ family = fam
    /\ sitesA1 = <<>>
    /\ sitesA2 = <<>>
    /\ resSites = FALSE
    /\ call = NoCall
    /\ candidates = <<>>
    /\ rxnListRaw = <<>>
    /\ rxnList = <<>>
    /\ genErr = "none"
    /\ labeledMols = {}
    /\ struct = [label |-> <<"", "", "">>,
                 bond |-> [p \in Pairs |-> 0],
                 rad |-> [a \in Atoms |-> 0]]
    /\ struct0 = struct
    /\ pre = struct
    /\ recipe = <<>>
    /\ recipe0 = <<>>
    /\ nrev = 0
    /\ hist = <<>>
    /\ err = "none"
    /\ events = <<>>
    /\ connectivity = "valid"
    /\ PairsIdle

\* getRootTemplate: the top-level node of the tree in each slot.
getRootTemplate == <<1, 1>>

\* The groups tried in one slot: the children of the group, in the order of
\* the tree, or the group itself when it has none.
slotChoices(g) ==
    IF children(g) # {}
    THEN LET ordered[k \in 0..4] ==
                 IF k = 0 THEN <<>>
                 ELSE IF k \in children(g) THEN Append(ordered[k - 1], k)
                 ELSE ordered[k - 1]
         IN  ordered[4]
    ELSE <<g>>

\* getAllCombinations of the two slots' choices, the first slot outermost.
childCombinations(rootTemplate) ==
    LET first == slotChoices(rootTemplate[1])
        second == slotChoices(rootTemplate[2])
    IN  [k \in 1..(Len(first) * Len(second)) |->
            <<first[((k - 1) \div Len(second)) + 1],
              second[((k - 1) % Len(second)) + 1]>>]

\* `label in alreadyDone` and `alreadyDone[label]` on the list of pairs.
inAlreadyDoneMutNever(done, label) == FALSE
inAlreadyDone(done, label) == \E i \in 1..Len(done) : done[i][1] = label

doneValue(done, label) ==
    done[CHOOSE i \in 1..Len(done) : done[i][1] = label][2]

\* `if entry.rank > 0`: the stored rule is trusted and its value kept.
keepsRuleMutAny(e) == TRUE
keepsRule(e) == e.rank > 0

\* self.rules.entries[entry.label] = entry
putEntryMutDrop(store, e) == store
putEntry(store, e) ==
    IF \E i \in 1..Len(store) : key(store[i]) = key(e)
    THEN [i \in 1..Len(store) |-> IF key(store[i]) = key(e) THEN e ELSE store[i]]
    ELSE Append(store, e)

\* '(Average of {0})'.format(' + '.join(comment or label of each child))
averageComment(kineticsList) ==
    <<Token("(Average of ", <<>>)>>
    \o FlattenFrom([i \in 1..Len(kineticsList) |->
           (IF i > 1 THEN <<Token(" + ", <<>>)>> ELSE <<>>)
           \o (IF kineticsList[i].kinetics.comment # <<>>
               THEN kineticsList[i].kinetics.comment
               ELSE <<Token("", <<kineticsList[i].t>>)>>)], 1)
    \o <<Token(")", <<>>)>>

\* averages stored as new entries of rank 0, which the next pass does not keep
storeAverageMutRankless(r, rootTemplate) ==
    IF r.st.err # "none" THEN [st |-> r.st, kinetics |-> NoKinetics]
    ELSE IF Len(r.kineticsList) > 0
    THEN IF averageRaises([i \in 1..Len(r.kineticsList) |-> r.kineticsList[i].kinetics])
         THEN [st |-> [r.st EXCEPT !.err = "Exception"], kinetics |-> NoKinetics]
         ELSE LET averaged ==
                      [getAverageKinetics([i \in 1..Len(r.kineticsList) |->
                                              r.kineticsList[i].kinetics])
                          EXCEPT !.comment = @ \o averageComment(r.kineticsList)]
                  newEntry == [index |-> 0, label |-> rootTemplate, rank |-> 0,
                               data |-> averaged]
              IN  [st |-> [r.st EXCEPT
                              !.rules = Append(@, newEntry),
                              !.done = Append(@, <<rootTemplate, averaged>>),
                              !.computed = Append(@, rootTemplate)],
                   kinetics |-> averaged]
    ELSE [st |-> [r.st EXCEPT !.done = Append(@, <<rootTemplate, NoKinetics>>),
                              !.computed = Append(@, rootTemplate)],
          kinetics |-> NoKinetics]

\* The part of a call after its children have been visited: st is the state
\* of the pass [rules, done, computed, err], r the state and the list of
\* [kinetics, template] pairs the loop over the children left.
storeAverage(r, rootTemplate) ==
    IF r.st.err # "none" THEN [st |-> r.st, kinetics |-> NoKinetics]
    ELSE IF Len(r.kineticsList) > 0
    THEN IF averageRaises([i \in 1..Len(r.kineticsList) |-> r.kineticsList[i].kinetics])
         THEN [st |-> [r.st EXCEPT !.err = "Exception"], kinetics |-> NoKinetics]
         ELSE LET averaged ==
                      [getAverageKinetics([i \in 1..Len(r.kineticsList) |->
                                              r.kineticsList[i].kinetics])
                          EXCEPT !.comment = @ \o averageComment(r.kineticsList)]
                  newEntry == [index |-> 0, label |-> rootTemplate, rank |-> 10,
                               data |-> averaged]
              IN  [st |-> [r.st EXCEPT
                              !.rules = putEntry(@, newEntry),
                              !.done = Append(@, <<rootTemplate, averaged>>),
                              !.computed = Append(@, rootTemplate)],
                   kinetics |-> averaged]
    ELSE [st |-> [r.st EXCEPT !.done = Append(@, <<rootTemplate, NoKinetics>>),
                              !.computed = Append(@, rootTemplate)],
          kinetics |-> NoKinetics]

RECURSIVE fillFrom(_, _, _), fillChildren(_, _, _, _, _, _)

\* One call of fillKineticsRulesByAveragingUp(rootTemplate, alreadyDone); a
\* result of NoKinetics stands for None.
fillFrom(fam, st, rootTemplate) ==
    IF st.err # "none" THEN [st |-> st, kinetics |-> NoKinetics]
    ELSE IF inAlreadyDone(st.done, rootTemplate)
    THEN [st |-> st, kinetics |-> doneValue(st.done, rootTemplate)]
    ELSE IF /\ hasRateRule(fam, st.rules, rootTemplate)
            /\ keepsRule(getRateRule(fam, st.rules, rootTemplate).entry)
    THEN LET data == getRateRule(fam, st.rules, rootTemplate).entry.data
         IN  [st |-> [st EXCEPT !.done = Append(@, <<rootTemplate, data>>),
                                !.computed = Append(@, rootTemplate)],
              kinetics |-> data]
    ELSE Bind(fillChildren(fam, st, rootTemplate,
                           childCombinations(rootTemplate), 1, <<>>),
              LAMBDA r : storeAverage(r, rootTemplate))

\* The loop over the child combinations, from the index-th on.
fillChildren(fam, st, rootTemplate, childrenList, index, kineticsList) ==
    IF index > Len(childrenList) \/ st.err # "none"
    THEN [st |-> st, kineticsList |-> kineticsList]
    ELSE IF childrenList[index] = rootTemplate
    THEN fillChildren(fam, st, rootTemplate, childrenList, index + 1, kineticsList)
    ELSE Bind(IF inAlreadyDone(st.done, childrenList[index])
              THEN [st |-> st, kinetics |-> doneValue(st.done, childrenList[index])]
              ELSE fillFrom(fam, st, childrenList[index]),
              LAMBDA r :
                  fillChildren(fam, r.st, rootTemplate, childrenList, index + 1,
                               IF r.kinetics # NoKinetics
                               THEN Append(kineticsList,
                                           [kinetics |-> r.kinetics,
                                            t |-> childrenList[index]])
                               ELSE kineticsList))

\* A pass from the root template with an empty alreadyDone.
fillKineticsRulesByAveragingUp(fam, store) ==
    fillFrom(fam, [rules |-> store, done |-> <<>>, computed |-> <<>>,
                   err |-> "none"],
             getRootTemplate)

InitFill ==
    /\ \E fam \in {f \in Families : f.label \in {"R_Recombination", "H_Abstraction"}} :
           GenIdleFor(fam)
    /\ rules \in LoopStores
    /\ kcall = NoCall
    /\ entry = NoEntry
    /\ kinetics = NoKinetics
    /\ levels = <<>>
    /\ kerr = "none"
    /\ pc = "idle"
    /\ loopList = <<>>
    /\ rules0 = <<>>
    /\ alreadyDone = <<>>
    /\ computed = <<>>
    /\ depositories = <<>>
    /\ consulted = <<>>
    /\ results = <<>>

\* The database fills the rules of a family; a second pass finds the
\* averaged entries of the first in the store.
FillKineticsRulesByAveragingUp ==
    /\ pc \in {"idle", "filled"}
    /\ \E r \in {fillKineticsRulesByAveragingUp(family, rules)} :
           /\ rules0' = rules
           /\ rules' = r.st.rules
           /\ alreadyDone' = r.st.done
           /\ computed' = r.st.computed
           /\ kinetics' = r.kinetics
           /\ kerr' = r.st.err
    /\ pc' = IF pc = "idle" THEN "filled" ELSE "refilled"
    /\ UNCHANGED <<kcall, entry, levels, loopList, depositories, consulted, results>>
    /\ UNCHANGED <<rvars, gvars, pvars>>

NextFill == FillKineticsRulesByAveragingUp

SpecFill == InitFill /\ [][NextFill]_vars

\* --- C12: what one pass of averaging up stores -------------------------------

passDone == pc \in {"filled", "refilled"}

visitedLabels == {computed[i] : i \in 1..Len(computed)}

resultOf(t) ==
    IF inAlreadyDone(alreadyDone, t) THEN doneValue(alreadyDone, t) ELSE NoKinetics

\* t was finished before u in the pass.
finishedBefore(t, u) ==
    \E i, j \in 1..Len(computed) : i < j /\ computed[i] = t /\ computed[j] = u

labelled0(label) ==
    {rules0[i] : i \in {j \in 1..Len(rules0) : rules0[j].label = label}}

newEntries == {rules[i] : i \in 1..Len(rules)} \ {rules0[i] : i \in 1..Len(rules0)}

\* The rules a visit of t finds: those stored under its label before the
\* pass and, when swappedToo, in R_Recombination those under the swapped
\* label, stored before the pass or earlier in it.
found(t, swappedToo) ==
    labelled0(t)
    \cup (IF swappedToo /\ labelIsRecombination(family) /\ t[1] # t[2]
          THEN labelled0(reversed(t))
               \cup {e \in newEntries : /\ e.label = reversed(t)
                                        /\ finishedBefore(reversed(t), t)}
          ELSE {})

childTuples(t) == (expansion(t[1]) \X expansion(t[2])) \ {t}

derivedChildren(t) == {c \in childTuples(t) : resultOf(c) # NoKinetics}

inSomeOrder(S) ==
    CHOOSE q \in [1..Cardinality(S) -> S] :
        \A i, j \in 1..Cardinality(S) : i # j => q[i] # q[j]

averageOfChildren(t) ==
    getAverageKinetics([i \in 1..Cardinality(derivedChildren(t)) |->
                           resultOf(inSomeOrder(derivedChildren(t))[i])])

passContract(swappedToo) ==
    passDone =>
    /\ kerr = "none"
    /\ getRootTemplate \in visitedLabels
    /\ \A i, j \in 1..Len(computed) : i # j => computed[i] # computed[j]
    /\ {alreadyDone[i][1] : i \in 1..Len(alreadyDone)} = visitedLabels
    /\ \A i \in 1..Len(rules0) : \E j \in 1..Len(rules) : rules[j] = rules0[i]
    /\ \A e \in newEntries : e.label \in visitedLabels
    /\ \A t \in visitedLabels :
           IF \E e \in found(t, swappedToo) : e.rank > 0
           THEN /\ \E e \in found(t, swappedToo) :
                       /\ isLeast(e, found(t, swappedToo))
                       /\ \/ e.label = t
                          \/ \A f \in found(t, swappedToo) :
                                 isLeast(f, found(t, swappedToo)) => f.label # t
                       /\ resultOf(t) = e.data
                /\ \A e \in newEntries : e.label # t
           ELSE IF childTuples(t) \subseteq visitedLabels /\ derivedChildren(t) # {}
           THEN \E e \in newEntries :
                       /\ e.label = t
                       /\ e.index = 0
                       /\ e.rank = 10
                       /\ e.data = resultOf(t)
                       /\ e.data.A = averageOfChildren(t).A
                       /\ e.data.n = averageOfChildren(t).n
                       /\ e.data.E0 = averageOfChildren(t).E0
                       /\ \A f \in newEntries : f.label = t => f = e
           ELSE /\ childTuples(t) \subseteq visitedLabels
                /\ resultOf(t) = NoKinetics
                /\ \A e \in newEntries : e.label # t

\* C12 as stated: in one pass of fillKineticsRulesByAveragingUp every tuple
\* visited that has a rule of rank > 0 stored under its label keeps it and
\* stores nothing; otherwise, when some child combination has a rate law, a
\* new entry of rank 10 with the average of exactly those children is stored
\* under its label; otherwise nothing is stored and the result is None; no
\* label is computed twice in a pass.
FillByOwnLabel == passContract(FALSE)

\* C12 (amended): the same, where the rule a tuple keeps is the one
\* getRateRule chooses for it, which in R_Recombination with two different
\* groups can be a rule stored under the swapped label, before the pass or
\* earlier in it.
FillByAveragingUp == passContract(TRUE)

FillByAveragingUpWitness ==
    /\ pc = "filled"
    /\ labelIsRecombination(family)
    /\ \E i \in 1..Len(rules0) : rules0[i].label = <<4, 3>> /\ rules0[i].rank = 3
    /\ labelled0(<<2, 3>>) \cup labelled0(<<3, 2>>) = {}
    /\ \E e \in newEntries :
           e.label = <<2, 3>> /\ e.rank = 10 /\ resultOf(<<3, 2>>) = e.data
    /\ \A e \in newEntries : e.label # <<3, 2>>
    /\ \E e \in newEntries : e.label = <<1, 1>> /\ Cardinality(derivedChildren(<<1, 1>>)) = 2
    /\ resultOf(<<3, 3>>) = NoKinetics

\* ---------------------------------------------------------------------------
\* Averaging rate laws (__getAverageKinetics) as a function of its list.
\* ---------------------------------------------------------------------------

UnimolecularUnits == {"s^-1"}
BimolecularUnits ==
    {"cm^3/(mol*s)", "cm^3/(molecule*s)", "m^3/(molecule*s)", "m^3/(mol*s)"}
TermolecularUnits ==
    {"cm^6/(mol^2*s)", "cm^6/(molecule^2*s)", "m^6/(molecule^2*s)", "m^6/(mol^2*s)"}
RecognizedUnits == UnimolecularUnits \cup BimolecularUnits \cup TermolecularUnits

\* The rate laws handed to the averaging: A in SI, the unit string it was
\* given in, and the other parameters.
AverageInputs ==
    LET laws == { [A |-> a, Aunits |-> u, n |-> 0, E0 |-> 3, comment |-> <<>>] :
                    a \in {10, 12}, u \in RecognizedUnits \cup {"kg/s", ""} }
    IN  { <<k>> : k \in laws }
        \cup { <<k1, k2>> : k1 \in laws, k2 \in {k \in laws : k.A = 12} }

InitAverage ==
    /\ \E fam \in {f \in Families : f.label = "H_Abstraction"} : GenIdleFor(fam)
    /\ rules = <<>>
    /\ kcall \in { [kind |-> "average", kineticsList |-> ks] : ks \in AverageInputs }
    /\ entry = NoEntry
    /\ kinetics = NoKinetics
    /\ levels = <<>>
    /\ kerr = "none"
    /\ pc = "idle"
    /\ loopList = <<>>
    /\ rules0 = <<>>
    /\ alreadyDone = <<>>
    /\ computed = <<>>
    /\ depositories = <<>>
    /\ consulted = <<>>
    /\ results = <<>>

GetAverageKinetics ==
    /\ pc = "idle"
    /\ kcall.kind = "average"
    /\ IF averageRaises(kcall.kineticsList)
       THEN kinetics' = NoKinetics /\ kerr' = "Exception"
       ELSE kinetics' = getAverageKinetics(kcall.kineticsList) /\ kerr' = "none"
    /\ pc' = "averaged"
    /\ UNCHANGED <<rules, kcall, entry, levels, loopList, rules0, alreadyDone, computed, depositories,
               consulted, results>>
    /\ UNCHANGED <<rvars, gvars, pvars>>

NextAverage == GetAverageKinetics

SpecAverage == InitAverage /\ [][NextAverage]_vars

inputUnits == {kcall.kineticsList[i].Aunits : i \in 1..Len(kcall.kineticsList)}

\* C13: averaging gives A the canonical unit of the reaction order of its
\* inputs (s^-1, m^3/(mol*s), m^6/(mol^2*s)) and fails with an error when an
\* input carries a unit string that is none of the recognized ones.
AverageNormalizesUnits ==
    pc = "averaged" =>
    /\ inputUnits \subseteq UnimolecularUnits
           => kerr = "none" /\ kinetics.Aunits = "s^-1"
    /\ inputUnits \subseteq BimolecularUnits
           => kerr = "none" /\ kinetics.Aunits = "m^3/(mol*s)"
    /\ inputUnits \subseteq TermolecularUnits
           => kerr = "none" /\ kinetics.Aunits = "m^6/(mol^2*s)"
    /\ ~(inputUnits \subseteq RecognizedUnits) => kerr = "Exception"

\* What the code does instead: every list is averaged, and the result is
\* tagged m^3/(mol*s) whatever the units of the inputs.
AverageAlwaysBimolecular ==
    pc = "averaged" => kerr = "none" /\ kinetics.Aunits = "m^3/(mol*s)"

\* ---------------------------------------------------------------------------
\* getKinetics: the depositories, the stored rules, then the estimator.
\* ---------------------------------------------------------------------------

MaxDepositories == 2

\* An entry of a depository of reactions and whether the reaction asked for
\* is isomorphic to its item ("no", or in which direction).
DepositoryPool ==
    { [entry |-> Entry(1, <<>>, 0), matches |-> "forward"],
      [entry |-> Entry(1, <<>>, 3), matches |-> "reverse"],
      [entry |-> Entry(1, <<>>, 3), matches |-> "no"],
      [entry |-> Entry(2, <<>>, 0), matches |-> "forward"],
      [entry |-> Entry(2, <<>>, 1), matches |-> "forward"] }

Depositories ==
    {<<>>} \cup { <<d>> : d \in DepositoryPool }
    \cup { <<d1, d2>> : d1 \in {d \in DepositoryPool : d.entry.index = 1},
                        d2 \in {d \in DepositoryPool : d.entry.index = 2} }

RECURSIVE DepositoryListsUpTo(_)
DepositoryListsUpTo(n) ==
    IF n = 0 THEN {<<>>}
    ELSE LET extend(shorter) ==
                 shorter \cup
                 { Append(ds, d) : ds \in {t \in shorter : Len(t) = n - 1},
                                   d \in Depositories }
         IN  Bind(DepositoryListsUpTo(n - 1), extend)

GkStores ==
    { <<>>, <<Entry(2, <<4, 3>>, 3)>>, <<Entry(2, <<4, 3>>, 0)>>,
      <<Entry(2, <<3, 4>>, 3)>>, <<Entry(2, <<2, 3>>, 3)>>,
      <<Entry(5, <<3, 4>>, 3), Entry(2, <<4, 3>>, 3)>>,
      <<Entry(2, <<4, 3, 3>>, 3)>> }

\* The result of the group-additivity estimator, which is not in this file.
GroupAdditivityKinetics ==
    [A |-> 7, Aunits |-> "m^3/(mol*s)", n |-> 0, E0 |-> 0,
     comment |-> <<Token("group additivity", <<>>)>>]

Source(kind, i) == [kind |-> kind, i |-> i]

Hit(k, source, e, isForward) ==
    [kinetics |-> k, source |-> source, entry |-> e, isForward |-> isForward]

\* getKineticsFromDepository on the rules: the entries whose labels are the
\* labels of the template, in any order; the data scaled by the degeneracy.
hitsOfRulesMutTuple(store, template, degeneracy) ==
    LET entries == SelectSeq(store, LAMBDA e : e.label = template)
    IN  [i \in 1..Len(entries) |->
            Hit([scale(entries[i].data, degeneracy) EXCEPT !.comment =
                     @ \o <<Token("Matched rule ", <<entries[i].label>>),
                            Token("Multiplied by reaction path degeneracy ", <<>>)>>],
                Source("rules", 0), entries[i], TRUE)]
hitsOfRules(store, template, degeneracy) ==
    LET entries == SelectSeq(store, LAMBDA e :
                       /\ \A i \in 1..Len(template) :
                              \E j \in 1..Len(e.label) : template[i] = e.label[j]
                       /\ \A j \in 1..Len(e.label) :
                              \E i \in 1..Len(template) : e.label[j] = template[i])
    IN  [i \in 1..Len(entries) |->
            Hit([scale(entries[i].data, degeneracy) EXCEPT !.comment =
                     @ \o <<Token("Matched rule ", <<entries[i].label>>),
                            Token("Multiplied by reaction path degeneracy ", <<>>)>>],
                Source("rules", 0), entries[i], TRUE)]

\* getKineticsFromDepository on the i-th depository of reactions.
hitsOfDepository(deps, i) ==
    LET entries == SelectSeq(deps[i], LAMBDA d : d.matches # "no")
    IN  [j \in 1..Len(entries) |->
            Hit([entries[j].entry.data EXCEPT !.comment =
                     @ \o <<Token("Matched reaction ", <<>>)>>],
                Source("depository", i), entries[j].entry,
                entries[j].matches = "forward")]

\* The one result chosen of the hits of a depository (family.py:1710-1715).
chosenHitMutFirst(kineticsList0) == kineticsList0[1]
chosenHit(kineticsList0) ==
    LET n == Len(kineticsList0)
        kept == IF /\ \E i \in 1..n : kineticsList0[i].entry.rank = 0
                   /\ ~(\A i \in 1..n : kineticsList0[i].entry.rank = 0)
                THEN SelectSeq(kineticsList0, LAMBDA x : x.entry.rank # 0)
                ELSE kineticsList0
        i == CHOOSE i \in 1..Len(kept) :
                 /\ \A j \in 1..Len(kept) :
                        ~lessKey(rankedKey(kept[j].entry), rankedKey(kept[i].entry))
                 /\ \A j \in 1..(i - 1) :
                        lessKey(rankedKey(kept[i].entry), rankedKey(kept[j].entry))
    IN  kept[i]

InitKinetics ==
    /\ \E fam \in {f \in Families : f.label = "H_Abstraction"} : GenIdleFor(fam)
    /\ rules \in GkStores
    /\ kcall = NoCall
    /\ entry = NoEntry
    /\ kinetics = NoKinetics
    /\ levels = <<>>
    /\ kerr = "none"
    /\ pc = "idle"
    /\ loopList = <<>>
    /\ rules0 = <<>>
    /\ alreadyDone = <<>>
    /\ computed = <<>>
    /\ depositories \in DepositoryListsUpTo(MaxDepositories)
    /\ consulted = <<>>
    /\ results = <<>>

\* getKinetics(reaction, template, degeneracy, estimator, returnAllKinetics)
\* is called; groupAdditivity is what the group-additivity estimator would
\* return for the template (NoKinetics for None).
GetKinetics ==
    /\ pc = "idle"
    /\ \E degeneracy \in {MaxDegeneracy},
          estimator \in {"", "rate rules", "group additivity", "other"},
          returnAllKinetics \in BOOLEAN,
          groupAdditivity \in {NoKinetics, GroupAdditivityKinetics} :
           kcall' = [kind |-> "getKinetics", template |-> <<4, 3>>,
                     degeneracy |-> degeneracy, estimator |-> estimator,
                     returnAllKinetics |-> returnAllKinetics,
                     groupAdditivity |-> groupAdditivity]
    /\ pc' = "depositories"
    /\ UNCHANGED <<rules, entry, kinetics, levels, kerr, loopList, rules0,
                   alreadyDone, computed, depositories, consulted, results>>
    /\ UNCHANGED <<rvars, gvars, pvars>>

\* One pass of the loop over self.depositories + [self.rules].
returnsAtOnceMutNever(kineticsList0, returnAllKinetics) == FALSE
returnsAtOnce(kineticsList0, returnAllKinetics) ==
    Len(kineticsList0) > 0 /\ ~returnAllKinetics

ConsultDepository ==
    /\ pc = "depositories"
    /\ LET i == Len(consulted) + 1
           last == i = Len(depositories) + 1
           kineticsList0 == IF last
                            THEN hitsOfRules(rules, kcall.template, kcall.degeneracy)
                            ELSE hitsOfDepository(depositories, i)
       IN  /\ consulted' = Append(consulted,
                                  IF last THEN Source("rules", 0)
                                  ELSE Source("depository", i))
           /\ IF returnsAtOnce(kineticsList0, kcall.returnAllKinetics)
              THEN /\ results' = <<chosenHit(kineticsList0)>>
                   /\ pc' = "returned"
              ELSE /\ results' = results \o kineticsList0
                   /\ pc' = IF last THEN "estimator" ELSE "depositories"
    /\ UNCHANGED <<rules, kcall, entry, kinetics, levels, kerr, loopList, rules0,
                   alreadyDone, computed, depositories>>
    /\ UNCHANGED <<rvars, gvars, pvars>>

\* an estimator of rate rules that returns None where it raises
getKineticsForTemplateMutNone(fam, store, c, method) ==
    IF method = "group additivity"
    THEN [kinetics |-> c.groupAdditivity, err |-> "none"]
    ELSE IF method = "rate rules"
    THEN LET r == estimateKineticsUsingRateRules(fam, store, c.template, c.degeneracy)
         IN  [kinetics |-> r.kinetics, err |-> "none"]
    ELSE [kinetics |-> NoKinetics, err |-> "ValueError"]

\* getKineticsForTemplate(template, degeneracy, method)
getKineticsForTemplate(fam, store, c, method) ==
    IF method = "group additivity"
    THEN [kinetics |-> c.groupAdditivity, err |-> "none"]
    ELSE IF method = "rate rules"
    THEN LET r == estimateKineticsUsingRateRules(fam, store, c.template, c.degeneracy)
         IN  [kinetics |-> r.kinetics, err |-> r.err]
    ELSE [kinetics |-> NoKinetics, err |-> "ValueError"]

\* What ends a call that found nothing to return at once.
endOfCall(returnAllKinetics) ==
    IF ~returnAllKinetics THEN "UndeterminableKineticsError" ELSE "none"

\* The first call of the estimator: the one asked for or, when none was,
\* the rate rules.
ConsultEstimator ==
    /\ pc = "estimator"
    /\ LET method == IF kcall.estimator # "" THEN kcall.estimator ELSE "rate rules"
       IN  \E r \in {getKineticsForTemplate(family, rules, kcall, method)} :
           /\ consulted' = Append(consulted, Source(method, 0))
           /\ kinetics' = r.kinetics
           /\ IF r.err # "none"
              THEN kerr' = r.err /\ pc' = "raised" /\ results' = <<>>
              ELSE IF r.kinetics # NoKinetics /\ ~kcall.returnAllKinetics
              THEN /\ kerr' = "none" /\ pc' = "returned"
                   /\ results' = <<Hit(r.kinetics, Source("None", 0), NoEntry, TRUE)>>
              ELSE /\ results' =
                          IF r.kinetics # NoKinetics
                          THEN Append(results,
                                      Hit(r.kinetics,
                                          IF kcall.estimator # ""
                                          THEN Source("None", 0)
                                          ELSE Source("rate rules", 0),
                                          NoEntry, TRUE))
                          ELSE results
                   /\ IF kcall.estimator = ""
                      THEN kerr' = "none" /\ pc' = "estimator2"
                      ELSE /\ kerr' = endOfCall(kcall.returnAllKinetics)
                           /\ pc' = IF kerr' = "none" THEN "returned" ELSE "raised"
    /\ UNCHANGED <<rules, kcall, entry, levels, loopList, rules0,
                   alreadyDone, computed, depositories>>
    /\ UNCHANGED <<rvars, gvars, pvars>>

\* With no estimator given, group additivity is asked after the rate rules.
ConsultGroupAdditivity ==
    /\ pc = "estimator2"
    /\ \E r \in {getKineticsForTemplate(family, rules, kcall, "group additivity")} :
           /\ consulted' = Append(consulted, Source("group additivity", 0))
           /\ IF r.kinetics # NoKinetics /\ ~kcall.returnAllKinetics
              THEN /\ kerr' = "none" /\ pc' = "returned"
                   /\ results' = <<Hit(kinetics, Source("None", 0), NoEntry, TRUE)>>
              ELSE /\ results' =
                          IF r.kinetics # NoKinetics
                          THEN Append(results, Hit(r.kinetics,
                                                   Source("group additivity", 0),
                                                   NoEntry, TRUE))
                          ELSE results
                   /\ kerr' = endOfCall(kcall.returnAllKinetics)
                   /\ pc' = IF kerr' = "none" THEN "returned" ELSE "raised"
    /\ UNCHANGED <<rules, kcall, entry, kinetics, levels, loopList, rules0,
                   alreadyDone, computed, depositories>>
    /\ UNCHANGED <<rvars, gvars, pvars>>

NextKinetics ==
    GetKinetics \/ ConsultDepository \/ ConsultEstimator \/ ConsultGroupAdditivity

SpecKinetics == InitKinetics /\ [][NextKinetics]_vars

\* --- C14: the order in which getKinetics consults its sources ----------------

inGetKinetics == kcall.kind = "getKinetics"

gkEnded == inGetKinetics /\ pc \in {"returned", "raised"}

\* The sources in the order of the claim: the depositories as registered,
\* the stored rules, the estimator(s).
sourceOrder ==
    [i \in 1..Len(depositories) |-> Source("depository", i)]
    \o <<Source("rules", 0)>>
    \o (IF kcall.estimator = ""
        THEN <<Source("rate rules", 0), Source("group additivity", 0)>>
        ELSE <<Source(kcall.estimator, 0)>>)

hitsOf(src) ==
    IF src.kind = "depository" THEN hitsOfDepository(depositories, src.i)
    ELSE IF src.kind = "rules"
    THEN hitsOfRules(rules, kcall.template, kcall.degeneracy)
    ELSE LET r == getKineticsForTemplate(family, rules, kcall, src.kind)
         IN  IF r.err = "none" /\ r.kinetics # NoKinetics
             THEN <<Hit(r.kinetics, Source("None", 0), NoEntry, TRUE)>>
             ELSE <<>>

positionOf(source) ==
    IF source.kind = "depository" THEN source.i
    ELSE IF source.kind = "rules" THEN Len(depositories) + 1
    ELSE IF source.kind = "group additivity" THEN Len(depositories) + 3
    ELSE Len(depositories) + 2

\* C14: getKinetics consults the depositories in the order of registration,
\* then the stored rules, then the estimator; with returnAllKinetics=False
\* the result comes from the first source in this order with a match; with
\* returnAllKinetics=True the list returned keeps this order.
ConsultsInOrder ==
    /\ [][inGetKinetics' /\ consulted' # consulted
              => /\ Len(consulted) < Len(sourceOrder')
                 /\ consulted' = Append(consulted, sourceOrder'[Len(consulted) + 1])]_vars
    /\ [](inGetKinetics /\ pc = "returned" /\ ~kcall.returnAllKinetics
              => /\ Len(results) = 1
                 /\ Len(consulted) >= 1
                 /\ \A j \in 1..(Len(consulted) - 1) : hitsOf(consulted[j]) = <<>>
                 /\ \E h \in Range(hitsOf(consulted[Len(consulted)])) :
                        results[1].kinetics = h.kinetics)
    /\ [](inGetKinetics /\ pc = "returned" /\ kcall.returnAllKinetics
              => /\ consulted = sourceOrder
                 /\ \A i, j \in 1..Len(results) :
                        i < j => positionOf(results[i].source)
                                     <= positionOf(results[j].source)
                 /\ \A j \in 1..Len(consulted) :
                        \A h \in Range(hitsOf(consulted[j])) :
                            \E i \in 1..Len(results) :
                                results[i].kinetics = h.kinetics)

ConsultsInOrderWitness ==
    /\ inGetKinetics
    /\ pc = "returned"
    /\ ~kcall.returnAllKinetics
    /\ Len(depositories) = 2
    /\ consulted = <<Source("depository", 1), Source("depository", 2)>>
    /\ hitsOf(Source("rules", 0)) # <<>>
    /\ results[1].source = Source("depository", 2)

\* --- C15: the one result of getKinetics --------------------------------------

entriesOf(kineticsList0) == {kineticsList0[i].entry : i \in 1..Len(kineticsList0)}

allDepositoryHits ==
    FlattenFrom([i \in 1..(Len(depositories) + 1) |->
                    IF i <= Len(depositories)
                    THEN hitsOfDepository(depositories, i)
                    ELSE hitsOfRules(rules, kcall.template, kcall.degeneracy)], 1)

fromDepository ==
    /\ inGetKinetics
    /\ pc = "returned"
    /\ ~kcall.returnAllKinetics
    /\ consulted[Len(consulted)].kind \in {"depository", "rules"}

\* C15 as stated: with returnAllKinetics=False the result is the best, by
\* rank > 0 first and then lowest (rank, index), of the hits of all the
\* depositories combined.
BestOfAllDepositories ==
    fromDepository => isLeast(results[1].entry, entriesOf(allDepositoryHits))

\* C15 (amended): the result is the best, by the same tie-break, of the hits
\* of the first depository, in the order consulted, that has a hit.
BestOfFirstDepository ==
    fromDepository =>
        /\ \A j \in 1..(Len(consulted) - 1) : hitsOf(consulted[j]) = <<>>
        /\ isLeast(results[1].entry, entriesOf(hitsOf(consulted[Len(consulted)])))
        /\ results[1].source = consulted[Len(consulted)]

BestOfFirstDepositoryWitness ==
    /\ fromDepository
    /\ Len(depositories) = 2
    /\ Len(hitsOfDepository(depositories, 1)) = 2
    /\ results[1].entry.rank = 1
    /\ results[1].entry.index = 2
    /\ \E h \in Range(hitsOfDepository(depositories, 1)) :
           h.entry.rank = 3 /\ h.entry.index = 1
    /\ \E h \in Range(hitsOfDepository(depositories, 2)) : h.entry.rank = 0

\* --- C16: no source has a rate law -------------------------------------------

\* The estimators the call asks: the one named or, when none is, both.
estimatorsAsked ==
    IF kcall.estimator = "" THEN {"rate rules", "group additivity"}
    ELSE {kcall.estimator}

nothingFound ==
    /\ gkEnded
    /\ ~kcall.returnAllKinetics
    /\ kcall.estimator # "other"
    /\ allDepositoryHits = <<>>
    /\ \A method \in estimatorsAsked : hitsOf(Source(method, 0)) = <<>>

\* C16: when getKinetics must return one rate law and no depository entry,
\* no stored rule and no estimator has one, the call fails with
\* UndeterminableKineticsError and with no other exception.
UndeterminableRaised ==
    nothingFound => pc = "raised" /\ kerr = "UndeterminableKineticsError"

\* What the code does: the rate-rule estimator, asked by name or by default,
\* ends the call with its own Exception; only group additivity asked by name
\* leads to UndeterminableKineticsError.
UndeterminableOnlyForGroupAdditivity ==
    nothingFound =>
        /\ pc = "raised"
        /\ kerr = IF kcall.estimator = "group additivity"
                  THEN "UndeterminableKineticsError" ELSE "Exception"

(***************************************************************************)
(* Generation with candidates that are filtered out or whose recipe fails. *)
(***************************************************************************)
\* the outcomes of the mappings of molecule A in the first slot: fragments,
\* a forbidden structure, a wrong number of products, an invalid action
FilterPool == {4, 6, Forbidden, WrongCount, Invalid}

FilterTables == SeqsUpTo(FilterPool, MaxMaps)

InitFilter ==
    /\ family \in Families
    /\ sitesA1 \in FilterTables
    /\ sitesA2 \in {<<>>, <<6>>}
    /\ resSites = FALSE
    /\ call = NoCall
    /\ candidates = <<>>
    /\ rxnListRaw = <<>>
    /\ rxnList = <<>>
    /\ genErr = "none"
    /\ labeledMols = {}
    /\ struct = [label |-> <<"", "", "">>,
                 bond |-> [p \in Pairs |-> 0],
                 rad |-> [a \in Atoms |-> 0]]
    /\ struct0 = struct
    /\ pre = struct
    /\ recipe = <<>>
    /\ recipe0 = <<>>
    /\ nrev = 0
    /\ hist = <<>>
    /\ err = "none"
    /\ events = <<>>
    /\ connectivity = "valid"
    /\ PairsIdle
    /\ RulesIdle

SpecFilter == InitFilter /\ [][NextGen]_vars

\* the fragments of a table of mapping outcomes that are products
fragmentsOf(sites) == SelectSeq(sites, LAMBDA f : f >= 0)

unimolecularCall ==
    /\ call # NoCall
    /\ call.kind = "forward"
    /\ call.reactants = <<Bare(molA)>>
    /\ family.nReact = 1

\* C17: a candidate that is forbidden (reactants, products or a cap) or
\* whose recipe gives the wrong number of products is skipped: no
\* ForbiddenStructureException leaves the generation, and the candidates of
\* the other mappings are generated all the same.
FilteredCandidatesSkipped ==
    call # NoCall =>
    /\ genErr # "ForbiddenStructureException"
    /\ unimolecularCall /\ Invalid \notin Range(sitesA1)
           => /\ genErr = "none"
              /\ [i \in 1..Len(candidates) |-> candidates[i].products]
                     = [i \in 1..Len(fragmentsOf(sitesA1)) |-> <<fragmentsOf(sitesA1)[i]>>]
              /\ \A i \in 1..Len(fragmentsOf(sitesA1)) :
                     call.products = <<>> =>
                         \E j \in 1..Len(rxnList) :
                             rxnList[j].products = <<fragmentsOf(sitesA1)[i]>>
    /\ (/\ call.kind = "forward"
        /\ call.reactants = <<Bare(molA), Bare(molB)>>
        /\ family.nReact = 2
        /\ Invalid \notin Range(sitesA1) \cup Range(sitesA2))
           => Len(candidates) = 2 * Len(fragmentsOf(sitesA1)) + Len(fragmentsOf(sitesA2))

FilteredCandidatesSkippedWitness ==
    /\ unimolecularCall
    /\ call.products = <<>>
    /\ sitesA1 = <<Forbidden, 4>>
    /\ genErr = "none"
    /\ Len(rxnList) = 1
    /\ rxnList[1].products = <<4>>

\* C18 as stated: an InvalidActionError of one candidate aborts that
\* candidate only, and the reactions of the other candidates of the call are
\* still generated.
InvalidAbortsCandidateOnly ==
    unimolecularCall /\ call.products = <<>> /\ Invalid \in Range(sitesA1)
        => \A i \in 1..Len(fragmentsOf(sitesA1)) :
               \E j \in 1..Len(rxnList) :
                   rxnList[j].products = <<fragmentsOf(sitesA1)[i]>>

\* C18 (amended): an InvalidActionError of one candidate is raised again and
\* ends the whole generation call: the caller gets the exception and no
\* reaction of any candidate.
InvalidAbortsGeneration ==
    /\ call # NoCall /\ (\E i \in 1..Len(candidates) : candidates[i] = Raised)
           => genErr = "InvalidActionError" /\ rxnList = <<>>
    /\ unimolecularCall /\ Invalid \in Range(sitesA1)
           => genErr = "InvalidActionError" /\ rxnList = <<>>

InvalidAbortsGenerationWitness ==
    /\ unimolecularCall
    /\ sitesA1 = <<4, Invalid>>
    /\ genErr = "InvalidActionError"
    /\ rxnList = <<>>

(***************************************************************************)
(* generateReactions and the molecules it is given.                        *)
(***************************************************************************)
\* self.generateReactions(reactants)
GenerateReactions ==
    /\ call = NoCall
    /\ \E reactants \in UniArgs \cup BiArgs :
       \E r \in {generateReactions(family, reactants, labeledMols)} :
             /\ call' = [kind |-> "generateReactions", reactants |-> reactants,
                         products |-> <<>>]
             /\ candidates' = generateCandidates(family, reactants, TRUE)
             /\ rxnListRaw' = <<>>
             /\ rxnList' = r.rxns
             /\ genErr' = r.err
             /\ labeledMols' = r.labeledMols
    /\ UNCHANGED <<family, sitesA1, sitesA2, resSites>>
    /\ UNCHANGED <<rvars, pvars>>
    /\ UNCHANGED kvars

NextFrame == GenerateForward \/ GenerateReverse \/ GenerateReactions

SpecFrame == InitFilter /\ [][NextFrame]_vars

generateReactionsReturned ==
    call # NoCall /\ call.kind = "generateReactions" /\ genErr = "none"

\* C19: after generateReactions returns, with any number of reactions,
\* every reactant molecule passed in is as it was before the call: no
\* molecule that had no atom labels has any.
ReactantsUnchanged ==
    generateReactionsReturned => labeledMols = {}

\* What the code guarantees instead: after a forward generation that
\* returns, the reactants of the reactions returned carry no labels.
ReturnedReactantsUnlabeled ==
    (call # NoCall /\ call.kind = "forward" /\ genErr = "none")
        => \A i \in 1..Len(rxnList) : \A j \in 1..Len(rxnList[i].reactants) :
               rxnList[i].reactants[j] \notin labeledMols

\* --- C20: when the swapped slot assignment is tried --------------------------

bimolecularCall ==
    /\ call # NoCall
    /\ call.kind = "forward"
    /\ Len(call.reactants) = 2
    /\ family.nReact = 2

\* the candidates of the straight assignment alone
straightCandidates ==
    Flatten([a \in 1..Len(call.reactants[1].mols) |->
        Flatten([b \in 1..Len(call.reactants[2].mols) |->
            pairMappings(family, TRUE, call.reactants[1].mols[a],
                         call.reactants[2].mols[b], 1, 2)])])

\* the candidates of the swapped assignment alone
swappedCandidates ==
    Flatten([a \in 1..Len(call.reactants[1].mols) |->
        Flatten([b \in 1..Len(call.reactants[2].mols) |->
            pairMappings(family, TRUE, call.reactants[1].mols[a],
                         call.reactants[2].mols[b], 2, 1)])])

\* C20: for two reactants the swapped slot assignment is tried if and only
\* if the two slots hold different reactants: the candidates of a call are
\* those of the straight assignment, followed for each pair of molecules by
\* those of the swapped one exactly when the reactants differ.
SwappedIffDistinct ==
    bimolecularCall =>
        candidates = bimolecular(family, TRUE, call.reactants[1].mols,
                                 call.reactants[2].mols,
                                 call.reactants[1].mols = call.reactants[2].mols)

\* What the code does: the swapped assignment is skipped only when the two
\* slots are one list object; the same molecule passed twice, or two equal
\* lists, are swapped.
SwappedUnlessOneObject ==
    bimolecularCall =>
        Len(candidates) =
            Len(straightCandidates)
            + (IF call.reactants[1].lid # 0 /\ call.reactants[1].lid = call.reactants[2].lid
               THEN 0 ELSE Len(swappedCandidates))

(***************************************************************************)
(* Reactant-product pairs: getReactionPairs                                *)
(***************************************************************************)

\* the atom labels the pairing rules look for
PairLabels == {"*1", "*2", "*3"}

\* the families of the pairing rules, and two families without a rule
PairFamilies ==
    { [label |-> "H_Abstraction", nReact |-> 2, nProd |-> 2, ownReverse |-> TRUE],
      [label |-> "Disproportionation", nReact |-> 2, nProd |-> 2, ownReverse |-> FALSE],
      [label |-> "Substitution_O", nReact |-> 2, nProd |-> 2, ownReverse |-> TRUE],
      [label |-> "SubstitutionS", nReact |-> 2, nProd |-> 2, ownReverse |-> TRUE],
      [label |-> "R_Recombination", nReact |-> 2, nProd |-> 1, ownReverse |-> FALSE],
      [label |-> "R_Addition_MultipleBond", nReact |-> 2, nProd |-> 1, ownReverse |-> FALSE] }

\* self.label.lower()
lower(label) ==
    CASE label = "H_Abstraction" -> "h_abstraction"
      [] label = "Disproportionation" -> "disproportionation"
      [] label = "Substitution_O" -> "substitution_o"
      [] label = "SubstitutionS" -> "substitutions"
      [] label = "R_Recombination" -> "r_recombination"
      [] label = "R_Addition_MultipleBond" -> "r_addition_multiplebond"
      [] OTHER -> label

\* a molecule object of a reaction and the labels its atoms carry
LabeledMol(oid, labels) == [oid |-> oid, labels |-> labels]

\* molecule.containsLabeledAtom(label)
containsLabeledAtom(molecule, label) == label \in molecule.labels

\* the two pairs of the reactants with the products in the same positions,
\* and with the products in the other positions
straightPairs(rxn) ==
    << <<rxn.reactants[1], rxn.products[1]>>, <<rxn.reactants[2], rxn.products[2]>> >>
crossedPairs(rxn) ==
    << <<rxn.reactants[1], rxn.products[2]>>, <<rxn.reactants[2], rxn.products[1]>> >>

\* the body the three hardcoded families share: the reactant with the atom
\* labeled reactantLabel goes with the product with the atom labeled
\* productLabel.  No branch is taken when neither reactant carries
\* reactantLabel: pairs stays empty and error stays False.
pairByLabels(rxn, reactantLabel, productLabel) ==
    IF Len(rxn.reactants) # 2 \/ Len(rxn.products) # 2
    THEN [pairs |-> <<>>, error |-> "AssertionError"]
    ELSE IF containsLabeledAtom(rxn.reactants[1], reactantLabel)
    THEN IF containsLabeledAtom(rxn.products[1], productLabel)
         THEN [pairs |-> straightPairs(rxn), error |-> "none"]
         ELSE IF containsLabeledAtom(rxn.products[2], productLabel)
         THEN [pairs |-> crossedPairs(rxn), error |-> "none"]
         ELSE [pairs |-> <<>>, error |-> "ReactionPairsError"]
    ELSE IF containsLabeledAtom(rxn.reactants[2], reactantLabel)
    THEN IF containsLabeledAtom(rxn.products[2], productLabel)
         THEN [pairs |-> straightPairs(rxn), error |-> "none"]
         ELSE IF containsLabeledAtom(rxn.products[1], productLabel)
         THEN [pairs |-> crossedPairs(rxn), error |-> "none"]
         ELSE [pairs |-> <<>>, error |-> "ReactionPairsError"]
    ELSE [pairs |-> <<>>, error |-> "none"]

\* the pairs of one side of a single molecule with each molecule of the
\* other side, reactants in the outer loop
allPairs(rxn) ==
    [k \in 1..(Len(rxn.reactants) * Len(rxn.products)) |->
        << rxn.reactants[((k - 1) \div Len(rxn.products)) + 1],
           rxn.products[((k - 1) % Len(rxn.products)) + 1] >>]

\* getReactionPairs(reaction): the pairs and the exception it ends with
getReactionPairs(fam, rxn) ==
    IF Len(rxn.reactants) = 1 \/ Len(rxn.products) = 1
    THEN [pairs |-> allPairs(rxn), error |-> "none"]
    ELSE IF lower(fam.label) = "h_abstraction" THEN pairByLabels(rxn, "*1", "*3")
    ELSE IF lower(fam.label) = "disproportionation" THEN pairByLabels(rxn, "*1", "*1")
    ELSE IF lower(fam.label) \in {"substitution_o", "substitutions"}
    THEN pairByLabels(rxn, "*2", "*3")
    ELSE [pairs |-> <<>>, error |-> "ReactionPairsError"]

\* the reactions handed in: one or two reactants, one or two products, any
\* placing of the labels on the molecules
PairMolecules(oids) == {LabeledMol(o, ls) : o \in oids, ls \in SUBSET PairLabels}
PairReactions ==
    { [reactants |-> rs, products |-> ps] :
        rs \in {<<a>> : a \in PairMolecules({1})}
               \cup {<<a, b>> : a \in PairMolecules({1}), b \in PairMolecules({2})},
        ps \in {<<c>> : c \in PairMolecules({3})}
               \cup {<<c, d>> : c \in PairMolecules({3}), d \in PairMolecules({4})} }

InitPairs ==
    /\ struct = [label |-> <<"", "", "">>,
                 bond |-> [p \in Pairs |-> 0],
                 rad |-> [a \in Atoms |-> 0]]
    /\ struct0 = struct
    /\ pre = struct
    /\ recipe = <<>>
    /\ recipe0 = <<>>
    /\ nrev = 0
    /\ hist = <<>>
    /\ err = "none"
    /\ events = <<>>
    /\ connectivity = "valid"
    /\ family \in PairFamilies
    /\ sitesA1 = <<>>
    /\ sitesA2 = <<>>
    /\ resSites = FALSE
    /\ call = NoCall
    /\ candidates = <<>>
    /\ rxnListRaw = <<>>
    /\ rxnList = <<>>
    /\ genErr = "none"
    /\ labeledMols = {}
    /\ RulesIdle
    /\ pairReaction \in PairReactions
    /\ pairs = <<>>
    /\ pairError = "none"

\* reaction.pairs = self.getReactionPairs(reaction)
GetReactionPairs ==
    /\ call = NoCall
    /\ call' = [kind |-> "getReactionPairs"]
    /\ LET r == getReactionPairs(family, pairReaction)
       IN  /\ pairs' = r.pairs
           /\ pairError' = r.error
    /\ UNCHANGED <<family, sitesA1, sitesA2, resSites, candidates, rxnListRaw, rxnList,
                   genErr, labeledMols, pairReaction>>
    /\ UNCHANGED <<rvars, kvars>>

NextPairs == GetReactionPairs

SpecPairs == InitPairs /\ [][NextPairs]_vars

\* getReactionPairs has returned or raised for a reaction of two reactants
\* and two products
pairedTwoByTwo ==
    /\ call.kind = "getReactionPairs"
    /\ Len(pairReaction.reactants) = 2
    /\ Len(pairReaction.products) = 2

\* each molecule of the list is a member of exactly one pair, on the side `side`
eachOnce(molecules, side) ==
    \A i \in 1..Len(molecules) :
        Cardinality({k \in 1..Len(pairs) : pairs[k][side] = molecules[i]}) = 1

\* the labels the family's rule looks for on the reactants and on the
\* products; none when the family has no rule
ruleLabels ==
    IF lower(family.label) = "h_abstraction" THEN <<"*1", "*3">>
    ELSE IF lower(family.label) = "disproportionation" THEN <<"*1", "*1">>
    ELSE IF lower(family.label) \in {"substitution_o", "substitutions"} THEN <<"*2", "*3">>
    ELSE <<>>

labelsFound ==
    /\ ruleLabels # <<>>
    /\ \E i \in 1..2 : containsLabeledAtom(pairReaction.reactants[i], ruleLabels[1])
    /\ \E i \in 1..2 : containsLabeledAtom(pairReaction.products[i], ruleLabels[2])

\* C21: for a reaction of two reactants and two products getReactionPairs
\* returns exactly two pairs in which every reactant and every product is
\* once, or raises ReactionPairsError (no rule for the family, or the
\* labels of the rule are not found); it returns no empty or partial list.
PairsCompleteOrRaised ==
    pairedTwoByTwo =>
        IF labelsFound
        THEN /\ pairError = "none"
             /\ Len(pairs) = 2
             /\ eachOnce(pairReaction.reactants, 1)
             /\ eachOnce(pairReaction.products, 2)
        ELSE /\ pairError = "ReactionPairsError"
             /\ pairs = <<>>

\* what the code does: the same, but a rule whose reactant label is on
\* neither reactant returns the empty list without raising
PairsEmptyWithoutReactantLabel ==
    pairedTwoByTwo =>
        IF labelsFound
        THEN /\ pairError = "none"
             /\ Len(pairs) = 2
             /\ eachOnce(pairReaction.reactants, 1)
             /\ eachOnce(pairReaction.products, 2)
        ELSE IF /\ ruleLabels # <<>>
                /\ \A i \in 1..2 :
                      ~containsLabeledAtom(pairReaction.reactants[i], ruleLabels[1])
        THEN pairError = "none" /\ pairs = <<>>
        ELSE pairError = "ReactionPairsError" /\ pairs = <<>>

\* --- C22: which entries of the rules match in getKineticsFromDepository ------

\* the loop over self.depositories + [self.rules] has just searched the rules
rulesSearched == inGetKinetics /\ pc = "estimator"

\* the entries of the rules among the results
ruleEntriesFound ==
    {results[i].entry : i \in {j \in 1..Len(results) : results[j].source.kind = "rules"}}

labelSet(label) == {label[i] : i \in 1..Len(label)}

\* C22 as stated: an entry of a rule-shaped depository matches exactly when
\* its label tuple equals the template's label tuple, as in getRateRule; a
\* reordering, or a different number of occurrences of a label, is no match.
DepositoryMatchByTuple ==
    rulesSearched =>
        ruleEntriesFound = {e \in Range(rules) : e.label = kcall.template}

\* C22 (amended): an entry matches exactly when every label of the template
\* is among the entry's labels and every label of the entry is among the
\* template's: order and number of occurrences play no part.
DepositoryMatchByLabelSet ==
    rulesSearched =>
        ruleEntriesFound =
            {e \in Range(rules) : labelSet(e.label) = labelSet(kcall.template)}

DepositoryMatchByLabelSetWitness ==
    /\ rulesSearched
    /\ kcall.template = <<4, 3>>
    /\ \E e \in ruleEntriesFound : e.label = <<3, 4>>
    /\ \E e \in ruleEntriesFound : e.label = <<4, 3>>

\* an entry that names a label of the template twice is matched too
DepositoryMatchRepeatedLabel ==
    /\ rulesSearched
    /\ \E e \in ruleEntriesFound : e.label = <<4, 3, 3>>

\* --- C23: the swapped label in getRateRule -----------------------------------

\* the family and the template for which getRateRule reverses the template
swapsSlots ==
    labelIsRecombination(family) /\ kcall.template[1] # kcall.template[2]

\* C23 as stated: label tuples are compared in order, and the swapped tuple
\* is looked up only when no entry has the requested tuple (and the family
\* is r_recombination with two different slots); when an entry has the
\* requested tuple the entries of the swapped tuple take no part.
SwappedOnlyWhenNoneMatches ==
    lookedUp =>
        IF labelled(kcall.template) # {}
        THEN kerr = "none" /\ isLeast(entry, labelled(kcall.template))
        ELSE IF swapsSlots /\ labelled(reversed(kcall.template)) # {}
        THEN kerr = "none" /\ isLeast(entry, labelled(reversed(kcall.template)))
        ELSE kerr = "ValueError" /\ entry = NoEntry

\* C23 (amended): label tuples are compared in order; in r_recombination
\* with two different slots the entries of the swapped tuple are always
\* collected too, and the choice is made among the entries of both tuples
\* together; in every other case only the requested tuple is looked up.
SwappedAlwaysPooled ==
    lookedUp =>
        IF swapsSlots
        THEN LET both == labelled(kcall.template) \cup labelled(reversed(kcall.template))
             IN  IF both = {} THEN kerr = "ValueError" /\ entry = NoEntry
                 ELSE kerr = "none" /\ isLeast(entry, both)
        ELSE IF labelled(kcall.template) = {}
        THEN kerr = "ValueError" /\ entry = NoEntry
        ELSE kerr = "none" /\ isLeast(entry, labelled(kcall.template))

\* a rule of the swapped tuple is returned although the requested tuple has one
SwappedAlwaysPooledWitness ==
    /\ lookedUp
    /\ swapsSlots
    /\ kcall.template = <<4, 3>>
    /\ labelled(<<4, 3>>) # {}
    /\ kerr = "none"
    /\ entry.label = <<3, 4>>
    /\ \A e \in labelled(<<4, 3>>) : lessKey(rankedKey(entry), rankedKey(e))

\* --- C24: the connectivity values around an application of the recipe --------

\* the last application returned
applied == hist # <<>> /\ err = "none"

positionsOf(kind) == {i \in 1..Len(events) : events[i].kind = kind}

\* C24: in an application that returns, the connectivity values are reset
\* before the first bond is changed, they are updated exactly once, after
\* the last action of the list was applied and never between two actions,
\* and they are valid on return.
ConnectivityBracket ==
    applied =>
        /\ \A i \in positionsOf("bond") :
               \E j \in positionsOf("resetConnectivityValues") : j < i
        /\ positionsOf("updateConnectivityValues") = {Len(events)}
        /\ \A k \in 1..Len(recipe) :
               \E i \in 1..(Len(events) - 1) :
                   events[i].k = k /\ events[i].kind \in {"bond", "radical"}
        /\ positionsOf("raised") = {}
        /\ connectivity = "valid"

ConnectivityBracketWitness ==
    /\ applied
    /\ Len(recipe) = 2
    /\ events = <<Event("resetConnectivityValues", 1), Event("bond", 1),
                  Event("radical", 2), Event("updateConnectivityValues", 0)>>
    /\ connectivity = "valid"

\* --- C25: the expected products of __generateReactions -----------------------

\* the expected products a caller passes with forward=False: the molecules
\* that the reverse direction makes, or others
ReverseFilters == ProductFilters \cup { <<4, 8>>, <<8, 4>>, <<6, 8>> }

\* self.__generateReactions(reactants, products, forward=False)
GenerateReverseExpecting == generateReverseExpecting(ReverseFilters)

NextExpect == GenerateForward \/ GenerateReverseExpecting

SpecExpect == InitFilter /\ [][NextExpect]_vars

\* a call with expected products in which no mapping raised
expecting ==
    /\ called
    /\ call.products # <<>>
    /\ \A i \in 1..Len(candidates) : candidates[i] \notin {Raised, Escaped}

\* C25: with expected products given, in either direction, the test of the
\* products raises no error, every reaction returned has products that
\* match them (two products in either order), and every candidate whose
\* products match them is in a reaction returned.
ExpectedProductsKept ==
    expecting =>
        /\ genErr \in {"none", "AssertionError", "Exception"}
        /\ \A i \in 1..Len(rxnList) :
               sameSpeciesLists(call.products, generated(rxnList[i], callForward))
        /\ genErr = "none" =>
               \A i \in 1..Len(candidates) :
                   sameSpeciesLists(call.products, generated(candidates[i], callForward))
                       => \E j \in 1..Len(rxnList) :
                              sameSpeciesLists(generated(rxnList[j], callForward),
                                               generated(candidates[i], callForward))

\* the same of the forward direction alone
ExpectedProductsKeptForward == callForward => ExpectedProductsKept

\* with forward=False the test of two expected products raises as soon as
\* the first of them is isomorphic to a molecule made, and matches nothing
\* otherwise
ExpectedProductsReverseRaises ==
    (expecting /\ ~callForward /\ Len(call.products) = 2) =>
        /\ rxnList = <<>>
        /\ (\E i \in 1..Len(candidates) : \E j \in 1..2 :
                firstIsomer(call.products[1]) = firstIsomer(candidates[i].reactants[j]))
               <=> genErr = "IndexError"

\* --- C26: the value returned after group additivity --------------------------

\* a call that must return one rate law and names no estimator
oneByDefault == inGetKinetics /\ ~kcall.returnAllKinetics /\ kcall.estimator = ""

\* the call returned from the statement that follows the group-additivity
\* step, and the value it returned is not the result of that step
staleReturned ==
    /\ oneByDefault
    /\ pc = "returned"
    /\ consulted # <<>>
    /\ consulted[Len(consulted)] = Source("group additivity", 0)
    /\ results[1].kinetics # kcall.groupAdditivity

\* C26 as stated: there is a path on which the value returned is stale; it
\* is the path of a call for which no depository and no rule has a match,
\* the rate-rules step has no result and group additivity has one, and on it
\* the value left by the rate-rules step is returned.
StaleReturnTaken ==
    (/\ oneByDefault
     /\ gkEnded
     /\ allDepositoryHits = <<>>
     /\ hitsOf(Source("rate rules", 0)) = <<>>
     /\ kcall.groupAdditivity # NoKinetics) => staleReturned

\* C26 (amended): the return that follows the group-additivity step is never
\* reached in such a call: the rate-rules step returns a rate law, which is
\* returned at once, or raises, which ends the call, so group additivity is
\* not asked and the value returned by the estimator step is the one the
\* rate-rules step has just computed.
StaleReturnUnreachable ==
    (oneByDefault /\ gkEnded) =>
        /\ \A i \in 1..Len(consulted) : consulted[i].kind # "group additivity"
        /\ ~staleReturned
        /\ consulted[Len(consulted)].kind = "rate rules" =>
               IF pc = "returned"
               THEN /\ results[1].kinetics = kinetics
                    /\ results[1].kinetics =
                           estimateKineticsUsingRateRules(family, rules, kcall.template,
                                                          kcall.degeneracy).kinetics
                    /\ kinetics # NoKinetics
               ELSE kerr = "Exception"

StaleReturnUnreachableWitness ==
    /\ oneByDefault
    /\ pc = "raised"
    /\ kerr = "Exception"
    /\ kcall.groupAdditivity = GroupAdditivityKinetics
    /\ consulted[Len(consulted)] = Source("rate rules", 0)

\* --- C27: what the pass of averaging up leaves for the estimator -------------

firstPassDone == pc = "filled"

\* group g is the group a or below it in the tree
RECURSIVE descendantOrSelf(_, _)
descendantOrSelf(g, a) ==
    g = a \/ (parent[g] # 0 /\ descendantOrSelf(parent[g], a))

\* the tuples of groups of the tree below the root template, slot by slot
treeTuples ==
    {t \in Groups \X Groups :
        \A i \in 1..2 : descendantOrSelf(t[i], getRootTemplate[i])}

\* the tuples the descent of the pass can come to from t: t, and from each
\* the tuples in which every slot that has children is one of its children
RECURSIVE descentFrom(_)
descentFrom(t) ==
    {t} \cup UNION {descentFrom(c) : c \in Range(childCombinations(t)) \ {t}}

\* the store before the pass had a rule of rank > 0 for a tuple of the set
ruleStoredIn(S) == \E e \in Range(rules0) : e.rank > 0 /\ e.label \in S

rootCovered ==
    /\ kerr = "none"
    /\ hasRateRule(family, rules, getRootTemplate)
    /\ \A t \in treeTuples :
           estimateKineticsUsingRateRules(family, rules, t, 1).err = "none"

\* C27 as stated: after the pass from the root template, if a rule of
\* rank > 0 is stored for a tuple of which every slot is the root's slot or
\* below it, the root template has a rate rule and the estimator raises for
\* no tuple of groups of the tree.
FilledRootCovers ==
    (firstPassDone /\ ruleStoredIn(treeTuples)) => rootCovered

\* C27 (amended): the same when the rule of rank > 0 is stored for a tuple
\* that the descent comes to from the root template, all slots that have
\* children descending together.
FilledRootCoversDescent ==
    (firstPassDone /\ ruleStoredIn(descentFrom(getRootTemplate))) => rootCovered

FilledRootCoversDescentWitness ==
    /\ firstPassDone
    /\ Len(rules0) = 1
    /\ rules0[1].label = <<4, 3>>
    /\ rules0[1].rank > 0
    /\ ~hasRateRule(family, rules0, getRootTemplate)
    /\ estimateKineticsUsingRateRules(family, rules0, <<3, 3>>, 1).err # "none"
    /\ rootCovered

\* --- C28: a second pass of averaging up --------------------------------------

\* a second pass has run right after a first; rules0 is the store between
secondPassDone == pc = "refilled"

\* C28: the second pass adds no entry, removes none and changes no stored
\* rate law, and getRateRule gives the same for every template after it as
\* before it.
FillIdempotent ==
    secondPassDone =>
        /\ kerr = "none"
        /\ Len(rules) = Len(rules0)
        /\ \A i \in 1..Len(rules) : rules[i] = rules0[i]
        /\ \A t \in Groups \X Groups :
               getRateRule(family, rules, t) = getRateRule(family, rules0, t)

\* the second pass of a store to which the first had added averages
FillIdempotentWitness ==
    /\ secondPassDone
    /\ \E e \in Range(rules) :
           e.index = 0 /\ e.label = getRootTemplate /\ e.rank = 10
    /\ \E e \in Range(rules) : e.index = 0 /\ e.label = <<2, 3>>
    /\ \E e \in Range(rules) : e.index # 0 /\ e.label = <<4, 3>> /\ e.rank > 0
    /\ rules = rules0

(***************************************************************************)
(* What the lookups write.  A rate law handled by a lookup is an object:   *)
(* the data of the entry at some place of a store (the place, from 1), or  *)
(* an object of no entry (0).                                              *)
(***************************************************************************)
MaxLookups == 2

\* a copy that is the object itself
deepcopyMutAlias(place) == place

\* deepcopy(entry.data): a new object
deepcopy(place) == 0

\* the store after the object at the place has come to hold the rate law k
written(store, place, k) ==
    IF place = 0 THEN store ELSE [store EXCEPT ![place].data = k]

\* the place of the entry in the store
placeOf(store, e) == CHOOSE i \in 1..Len(store) : store[i] = e

\* getKineticsFromDepository on the rules: the comment and the degeneracy
\* are written to the object put in the list for each matching entry
RECURSIVE rulesAfterDepository(_, _, _, _)
rulesAfterDepository(store0, store, hits, i) ==
    IF i > Len(hits) THEN store
    ELSE rulesAfterDepository(store0,
             written(store, deepcopy(placeOf(store0, hits[i].entry)), hits[i].kinetics),
             hits, i + 1)

\* getKineticsFromDepository on a depository of reactions, likewise
RECURSIVE depositoryAfter(_, _, _, _)
depositoryAfter(depository0, depository, hits, i) ==
    IF i > Len(hits) THEN depository
    ELSE LET place == deepcopy(CHOOSE j \in 1..Len(depository0) :
                                   /\ depository0[j].entry = hits[i].entry
                                   /\ depository0[j].matches # "no")
         IN  depositoryAfter(depository0,
                 IF place = 0 THEN depository
                 ELSE [depository EXCEPT ![place].entry.data = hits[i].kinetics],
                 hits, i + 1)

\* estimateKineticsUsingRateRules: with one rule found the comment and the
\* degeneracy are written to the object made of its data; an average is a
\* new object
rulesAfterEstimate(fam, store, template, degeneracy) ==
    LET r == estimateKineticsUsingRateRules(fam, store, template, degeneracy)
    IN  IF r.err # "none" THEN store
        ELSE LET kineticsList == kineticsListOf(fam, store, r.levels[Len(r.levels)])
             IN  IF Len(kineticsList) = 1
                 THEN written(store,
                          deepcopy(placeOf(store,
                              getRateRule(fam, store, kineticsList[1].t).entry)),
                          r.kinetics)
                 ELSE store

\* the template list after getRateRule: template.reverse() before and after
\* the second search
templateAfter(fam, template) ==
    IF labelIsRecombination(fam) /\ template[1] # template[2]
    THEN reversed(reversed(template))
    ELSE template

\* the stores after getKinetics: every source consulted writes as above
RECURSIVE storesAfterGetKinetics(_, _, _, _, _)
storesAfterGetKinetics(fam, store, deps, c, i) ==
    IF i <= Len(deps)
    THEN LET hits == hitsOfDepository(deps, i)
             after == [deps EXCEPT ![i] = depositoryAfter(deps[i], deps[i], hits, 1)]
         IN  IF returnsAtOnce(hits, c.returnAllKinetics)
             THEN [rules |-> store, depositories |-> after]
             ELSE storesAfterGetKinetics(fam, store, after, c, i + 1)
    ELSE LET hits == hitsOfRules(store, c.template, c.degeneracy)
             after == rulesAfterDepository(store, store, hits, 1)
         IN  IF returnsAtOnce(hits, c.returnAllKinetics) \/ c.estimator = "group additivity"
             THEN [rules |-> after, depositories |-> deps]
             ELSE [rules |-> rulesAfterEstimate(fam, after, c.template, c.degeneracy),
                   depositories |-> deps]

LookupTemplates == { <<4, 3>>, <<3, 4>>, <<4, 4>> }

\* self.depositories: none, one, or the same one twice
LookupDepositories ==
    DepositoryListsUpTo(1) \cup { <<d, d>> : d \in Depositories }

InitLookup ==
    /\ \E fam \in {f \in Families : f.label \in {"R_Recombination", "H_Abstraction"}} :
           GenIdleFor(fam)
    /\ rules \in GkStores
    /\ kcall = [kind |-> "none", n |-> 0]
    /\ entry = NoEntry
    /\ kinetics = NoKinetics
    /\ levels = <<>>
    /\ kerr = "none"
    /\ pc = "idle"
    /\ loopList = <<>>
    /\ rules0 = rules
    /\ alreadyDone = <<>>
    /\ computed = <<>>
    /\ depositories \in LookupDepositories
    /\ consulted = <<>>
    /\ results = <<>>

\* what every lookup leaves alone
lookupFrame ==
    /\ kcall.n < MaxLookups
    /\ UNCHANGED <<levels, pc, loopList, rules0, alreadyDone, computed, consulted,
                   results>>
    /\ UNCHANGED <<rvars, gvars, pvars>>

\* self.hasRateRule(template)
LookupHasRateRule ==
    /\ lookupFrame
    /\ \E template \in LookupTemplates :
           /\ kcall' = [kind |-> "hasRateRule", n |-> kcall.n + 1, template |-> template,
                        templateAfter |-> templateAfter(family, template)]
           /\ kerr' = "none"
    /\ UNCHANGED <<rules, depositories, entry, kinetics>>

\* self.getRateRule(template)
LookupGetRateRule ==
    /\ lookupFrame
    /\ \E template \in LookupTemplates :
           /\ kcall' = [kind |-> "getRateRule", n |-> kcall.n + 1, template |-> template,
                        templateAfter |-> templateAfter(family, template)]
           /\ entry' = getRateRule(family, rules, template).entry
           /\ kerr' = getRateRule(family, rules, template).err
    /\ UNCHANGED <<rules, depositories, kinetics>>

\* self.estimateKineticsUsingRateRules(template, degeneracy)
LookupEstimate ==
    /\ lookupFrame
    /\ \E template \in LookupTemplates :
           /\ kcall' = [kind |-> "estimate", n |-> kcall.n + 1, template |-> template,
                        templateAfter |-> templateAfter(family, template)]
           /\ kinetics' = estimateKineticsUsingRateRules(family, rules, template,
                                                         MaxDegeneracy).kinetics
           /\ kerr' = estimateKineticsUsingRateRules(family, rules, template,
                                                     MaxDegeneracy).err
           /\ rules' = rulesAfterEstimate(family, rules, template, MaxDegeneracy)
    /\ UNCHANGED <<depositories, entry>>

\* self.getKineticsFromDepository(depository, reaction, template, degeneracy),
\* the depository one of self.depositories or self.rules
LookupDepository ==
    /\ lookupFrame
    /\ \E template \in LookupTemplates, i \in 1..(Len(depositories) + 1) :
           /\ kcall' = [kind |-> "getKineticsFromDepository", n |-> kcall.n + 1,
                        template |-> template, templateAfter |-> template]
           /\ IF i <= Len(depositories)
              THEN /\ depositories' =
                          [depositories EXCEPT ![i] =
                              depositoryAfter(depositories[i], depositories[i],
                                              hitsOfDepository(depositories, i), 1)]
                   /\ kinetics' = IF hitsOfDepository(depositories, i) = <<>>
                                  THEN NoKinetics
                                  ELSE hitsOfDepository(depositories, i)[1].kinetics
                   /\ UNCHANGED rules
              ELSE /\ rules' = rulesAfterDepository(rules, rules,
                                   hitsOfRules(rules, template, MaxDegeneracy), 1)
                   /\ kinetics' = IF hitsOfRules(rules, template, MaxDegeneracy) = <<>>
                                  THEN NoKinetics
                                  ELSE hitsOfRules(rules, template, MaxDegeneracy)[1].kinetics
                   /\ UNCHANGED depositories
    /\ UNCHANGED <<entry, kerr>>

\* self.getKinetics(reaction, template, degeneracy, estimator, returnAllKinetics)
LookupGetKinetics ==
    /\ lookupFrame
    /\ \E template \in LookupTemplates,
          estimator \in {"", "rate rules", "group additivity"},
          returnAllKinetics \in BOOLEAN :
           \E after \in {storesAfterGetKinetics(family, rules, depositories,
                             [template |-> template, degeneracy |-> MaxDegeneracy,
                              estimator |-> estimator,
                              returnAllKinetics |-> returnAllKinetics], 1)} :
               /\ kcall' = [kind |-> "getKinetics", n |-> kcall.n + 1,
                            template |-> template,
                            templateAfter |-> templateAfter(family, template)]
               /\ rules' = after.rules
               /\ depositories' = after.depositories
    /\ UNCHANGED <<entry, kinetics, kerr>>

NextLookup ==
    \/ LookupHasRateRule
    \/ LookupGetRateRule
    \/ LookupEstimate
    \/ LookupDepository
    \/ LookupGetKinetics

SpecLookup == InitLookup /\ [][NextLookup]_vars

\* --- C29: the lookups write to copies ----------------------------------------

\* C29: after any sequence of hasRateRule, getRateRule,
\* estimateKineticsUsingRateRules, getKineticsFromDepository and getKinetics
\* calls every stored rule and every depository entry is what it was, and
\* the template list passed in has its slots in the order it came with.
LookupsReadOnly ==
    /\ rules = rules0
    /\ \A i \in 1..Len(depositories) : \A j \in 1..Len(depositories[i]) :
           depositories[i][j].entry =
               Entry(depositories[i][j].entry.index, <<>>, depositories[i][j].entry.rank)
    /\ kcall.n > 0 => kcall.templateAfter = kcall.template

\* a second lookup has scaled the rate law of a stored rule and noted it in
\* the comment of what it returned, in the family that reverses the template
LookupsReadOnlyWitness ==
    /\ kcall.n = 2
    /\ kcall.kind = "estimate"
    /\ labelIsRecombination(family)
    /\ kcall.template = <<4, 3>>
    /\ kerr = "none"
    /\ \E e \in Range(rules) :
           /\ kinetics.A = MaxDegeneracy * e.data.A
           /\ kinetics.comment # e.data.comment
    /\ rules = rules0

(***************************************************************************)
(* Generation from molecules whose sites can give the molecules back: a    *)
(* mapping of molecule 1 may give 1, 2 (its resonance isomer) or 6.        *)
(***************************************************************************)
IdentityFrags == {1, 2, 6}

InitIdentity ==
    /\ family \in Families
    /\ sitesA1 \in SeqsUpTo(IdentityFrags, MaxMaps)
    /\ sitesA2 \in { <<>>, <<1>>, <<6>>, <<1, 6>>, <<2, 1>> }
    /\ resSites \in BOOLEAN
    /\ call = NoCall
    /\ candidates = <<>>
    /\ rxnListRaw = <<>>
    /\ rxnList = <<>>
    /\ genErr = "none"
    /\ labeledMols = {}
    /\ struct = [label |-> <<"", "", "">>,
                 bond |-> [p \in Pairs |-> 0],
                 rad |-> [a \in Atoms |-> 0]]
    /\ struct0 = struct
    /\ pre = struct
    /\ recipe = <<>>
    /\ recipe0 = <<>>
    /\ nrev = 0
    /\ hist = <<>>
    /\ err = "none"
    /\ events = <<>>
    /\ connectivity = "valid"
    /\ PairsIdle
    /\ RulesIdle

SpecIdentity == InitIdentity /\ [][NextFrame]_vars

\* --- C30: no identity reaction -----------------------------------------------

\* a reaction whose products are its reactants, for two in either order
identity(rxn) ==
    \/ /\ Len(rxn.reactants) = 1 /\ Len(rxn.products) = 1
       /\ isIsomorphic(rxn.reactants[1], rxn.products[1])
    \/ /\ Len(rxn.reactants) = 2 /\ Len(rxn.products) = 2
       /\ \/ /\ isIsomorphic(rxn.reactants[1], rxn.products[1])
             /\ isIsomorphic(rxn.reactants[2], rxn.products[2])
          \/ /\ isIsomorphic(rxn.reactants[1], rxn.products[2])
             /\ isIsomorphic(rxn.reactants[2], rxn.products[1])

RECURSIVE sumOfDegeneracies(_, _)
sumOfDegeneracies(rxns, i) ==
    IF i > Len(rxns) THEN 0 ELSE rxns[i].degeneracy + sumOfDegeneracies(rxns, i + 1)

\* the product structures of one mapping of a molecule alone
uniStructures(forward) ==
    { [reactants |-> <<m.cls>>,
       products |-> generateProductStructures(family, forward, <<f>>)] :
          <<m, f>> \in UNION { {m} \X Range(matchReactantToTemplate(family, forward, 1, m.cls)) :
                                 m \in Range(call.reactants[1].mols) } }

\* the product structures of one pair of mappings of two molecules, the
\* first in the first slot
biStructures(forward) ==
    { [reactants |-> <<q[1].cls, q[2].cls>>,
       products |-> generateProductStructures(family, forward, <<q[3], q[4]>>)] :
          q \in UNION { {<<a, b, fa, fb>> :
                            fa \in Range(matchReactantToTemplate(family, forward, 1, a.cls)),
                            fb \in Range(matchReactantToTemplate(family, forward, 2, b.cls))} :
                        <<a, b>> \in Range(call.reactants[1].mols)
                                     \X Range(call.reactants[2].mols) } }

\* C30: generateReactions never returns an identity reaction: no returned
\* reaction with one reactant and one product has the product isomorphic to
\* the reactant, none with two and two has the products isomorphic to the
\* reactants in either order; such candidates are dropped before the
\* deduplication and add nothing to any degeneracy.
NoIdentityReaction ==
    call # NoCall =>
        /\ \A i \in 1..Len(rxnList) : ~identity(rxnList[i])
        /\ \A i \in 1..Len(candidates) :
               candidates[i] \notin {Raised, Escaped} => ~identity(candidates[i])
        /\ (call.kind \in {"forward", "reverse"} /\ call.products = <<>>
                /\ ~anyRaised(candidates) /\ ~anyEscaped(candidates))
               => sumOfDegeneracies(rxnListRaw, 1) = Len(candidates)

\* generateReactions has returned reactions for two molecules of which one
\* pair of mappings gave the two back in the other order
NoIdentityReactionWitness ==
    /\ call # NoCall
    /\ call.kind = "generateReactions"
    /\ genErr = "none"
    /\ rxnList # <<>>
    /\ Len(call.reactants) = 2
    /\ templateReactants(family, TRUE) = 2
    /\ \E x \in biStructures(TRUE) :
           /\ Len(x.products) = 2
           /\ x.products[1] = x.reactants[2]
           /\ x.products[2] = x.reactants[1]
           /\ x.products[1] # x.products[2]

\* a forward generation has met a mapping of one molecule that gave the
\* molecule back
IdentityOneToOneMet ==
    /\ call # NoCall
    /\ call.kind = "forward"
    /\ genErr = "none"
    /\ rxnList # <<>>
    /\ Len(call.reactants) = 1
    /\ templateReactants(family, TRUE) = 1
    /\ \E x \in uniStructures(TRUE) : x.products = x.reactants

====
